---- MODULE Spec2Model ----
(***************************************************************************)
(* Model of the authentication / role core of typescript-postgres-express. *)
(*                                                                         *)
(*   RoleRepository  (api/src/db/storage/postgres/repository/              *)
(*                    role.repository.ts): update, remove, create          *)
(*   AuthController  (controllers/auth): check, login, ga2fa, signup,      *)
(*                    forgot, reset, logout, callback                      *)
(*   passport LocalStrategy / serializeUser, Service.fetchJSON,            *)
(*   Service.hash    (api/src/services/app.service.ts)                     *)
(*                                                                         *)
(* Every await of a handler is a step boundary: the statements of two      *)
(* calls in flight interleave at the store.                                *)
(***************************************************************************)
EXTENDS Integers, Sequences, FiniteSets, TLC

\* ------------------------------------------------------------------ bounds
MaxExtraRoles == 2      \* roles the store can hold beside the protected three
MaxRoleCalls  == 2      \* role repository calls started in one behaviour
MaxNow        == 2      \* the clock runs 1 .. MaxNow
MaxUsers      == 5      \* user records the store can hold
MaxAuthReqs   == 2      \* auth requests started in one behaviour
MaxSalt       == 1      \* bcrypt salts 1 .. MaxSalt

\* --------------------------------------------------------- program constants
SUPERADMIN_ROLE_ID == 1
ADMIN_ROLE_ID      == 2
USER_ROLE_ID       == 3

OK_REQUEST_CODE           == 200
UNAUTHORIZED_REQUEST_CODE == 401
RESET_TTL                 == 3600000   \* forgot: Date.now() + 3600000

NULL == 0               \* SQL NULL / JS null of a numeric or date column

\* auth.error.codes
ERROR_GA2FA_NO_CODE        == "no 2FA code was provided"
ERROR_GA2FA_INCORRECT_CODE == "2FA code is incorrect"
ERROR_VALIDATION           == "unauthorized"
ERROR_AUTH_EMPTY_PASSWORD_CREDENTIALS     == "empty password"
ERROR_AUTH_PASSWORD_NOT_MATCH_CREDENTIALS == "password is not match"
ERROR_AUTH_USERNAME        == "user with this username already exist"
ERROR_AUTH_EMAIL           == "user with this email already exist"
ERROR_AUTH_EMPTY_EMAIL     == "email must be provided"
ERROR_AUTH_INVALID_EMAIL   == "account with that email address does not exist"
ERROR_AUTH_INVALID_RESET_TOKEN == "invalid reset token"

\* messages of errors raised outside the controller
STORE_ERROR   == "store error"           \* a rejected store query
FETCH_ERROR   == "fetch failed"          \* node-fetch rejects, or no response
Undefined     == "undefined"             \* e.message of a value that has none

ProtectedRoleIds == {SUPERADMIN_ROLE_ID, ADMIN_ROLE_ID, USER_ROLE_ID}
RoleIds          == 1 .. (3 + MaxExtraRoles)
RoleUserIds      == {1, 2}                 \* user ids a membership can name
Titles           == {"editor", "author"}
Descriptions     == {"d"}
Slots            == {1, 2}                 \* role calls in flight at once

VARIABLES
    nodeEnv,        \* process.env.NODE_ENV
    now,            \* the clock: NOW() of the store, Date.now() of the process
    roles,          \* roles table: id -> [title, description, enabled, removed]
    userRole,       \* user_role table: set of <<user_id, role_id>>
    nextRoleId,     \* the serial of roles.id
    roleCall,       \* slot -> the role repository call running in it
    roleCallsStarted,
    users,          \* users table: id -> the stored columns
    nextUserId,     \* the serial of users.id
    session,        \* client -> the user id its server-side session is bound to
    req,            \* client -> the auth request being handled for it
    authStarted

roleVars == <<roles, userRole, nextRoleId, roleCall, roleCallsStarted>>
authVars == <<users, nextUserId, session, req, authStarted>>
vars     == <<nodeEnv, now, roleVars, authVars>>

\* ------------------------------------------------------------ role store
NoRole == [id |-> NULL, title |-> "", description |-> "", enabled |-> FALSE,
           removed |-> NULL, users |-> {}]

IdleCall == [op |-> "idle", pc |-> "idle", role |-> NoRole, pending |-> {},
             result |-> NULL, error |-> ""]

RoleUsers(id) == {l[1] : l \in {m \in userRole : m[2] = id}}

\* getOne("id", id): the row with its aggregated users, or null
getById(id) ==
    IF id \in DOMAIN roles
    THEN [id |-> id, title |-> roles[id].title, description |-> roles[id].description,
          enabled |-> roles[id].enabled, removed |-> roles[id].removed,
          users |-> RoleUsers(id)]
    ELSE NoRole

\* getOne("title", title): rows ordered by id ascending, the first one or null
getByName(rs, title) ==
    LET ids == {i \in DOMAIN rs : rs[i].title = title}
    IN  IF ids = {} THEN NULL
        ELSE CHOOSE i \in ids : \A j \in ids : i <= j

IsProtected(id) ==
    id = SUPERADMIN_ROLE_ID \/ id = ADMIN_ROLE_ID \/ id = USER_ROLE_ID

\* the guard with the protected-id test left out
UpdateGuardThrows_NoIdTest(role) ==
    LET roleBeforeUpdate == getById(role.id)
    IN  /\ roleBeforeUpdate.id # NULL
        /\ roleBeforeUpdate.enabled # role.enabled
        /\ ~IsProtected(role.id)

\* update, lines 121-125: the only guard of update
UpdateGuardThrows(role) ==
    LET roleBeforeUpdate == getById(role.id)
    IN  /\ roleBeforeUpdate.id # NULL
        /\ roleBeforeUpdate.enabled # role.enabled
        /\ IsProtected(role.id)

\* the guard that forgets the standard-user role
RemoveGuardThrows_TwoIds(role) ==
    role.id = SUPERADMIN_ROLE_ID \/ role.id = ADMIN_ROLE_ID

\* remove, lines 186-188
RemoveGuardThrows(role) == IsProtected(role.id)

\* titles are unique in the roles table
TitleFree(title, exceptId) ==
    \A i \in DOMAIN roles : i # exceptId => roles[i].title # title

\* the role entities a caller passes; remove reads only the id, create only
\* title and description (enabled is passed and ignored)
RoleArgs ==
    [id : RoleIds, title : Titles, description : Descriptions,
     enabled : BOOLEAN, removed : {NULL, now}, users : SUBSET RoleUserIds]

RemoveArgs == {[NoRole EXCEPT !.id = i] : i \in RoleIds}

CreateArgs ==
    {[NoRole EXCEPT !.title = t, !.description = d, !.enabled = e] :
        t \in Titles, d \in Descriptions, e \in BOOLEAN}

CanStart(c) ==
    /\ roleCall[c].pc \in {"idle", "resolved", "rejected"}
    /\ roleCallsStarted < MaxRoleCalls

Goto(c, pc) == roleCall' = [roleCall EXCEPT ![c].pc = pc]

\* the promise settles: the slot keeps the operation, the role id and the outcome
Settle(c, pc, result, error) ==
    roleCall' = [roleCall EXCEPT ![c] =
        [op |-> roleCall[c].op, pc |-> pc,
         role |-> [NoRole EXCEPT !.id = roleCall[c].role.id],
         pending |-> {}, result |-> result, error |-> error]]

\* reject(e) with the error of a failed store statement
Reject(c) == Settle(c, "rejected", NULL, STORE_ERROR)

\* reject(e) with the error a guard threw
RejectGuard(c) == Settle(c, "rejected", NULL, "cannot be disabled")

\* ---------------------------------------------------------------- update
UpdateStart(c) ==
    /\ CanStart(c)
    /\ \E role \in RoleArgs :
         roleCall' = [roleCall EXCEPT ![c] =
            [op |-> "update", pc |-> "getById", role |-> role,
             pending |-> {}, result |-> NULL, error |-> ""]]
    /\ roleCallsStarted' = roleCallsStarted + 1
    /\ UNCHANGED <<authVars, nodeEnv, now, roles, userRole, nextRoleId>>

\* const roleBeforeUpdate = await this.getById(role.id); the guard
UpdateGetById(c) ==
    /\ roleCall[c].op = "update" /\ roleCall[c].pc = "getById"
    /\ \/ Reject(c)                         \* the SELECT fails
       \/ IF UpdateGuardThrows(roleCall[c].role)
          THEN RejectGuard(c)
          ELSE Goto(c, "updateRow")
    /\ UNCHANGED <<authVars, nodeEnv, now, roles, userRole, nextRoleId, roleCallsStarted>>

\* UPDATE roles SET title, description, enabled, removed WHERE id = $1
UpdateRow(c) ==
    LET role == roleCall[c].role
    IN  /\ roleCall[c].op = "update" /\ roleCall[c].pc = "updateRow"
        /\ \/ /\ Reject(c)                  \* the statement fails
              /\ UNCHANGED roles
           \/ /\ role.id \in DOMAIN roles
              /\ TitleFree(role.title, role.id)
              /\ roles' = [roles EXCEPT ![role.id] =
                    [title |-> role.title, description |-> role.description,
                     enabled |-> role.enabled, removed |-> role.removed]]
              /\ Goto(c, "deleteLinks")
           \/ /\ role.id \notin DOMAIN roles          \* no row matches
              /\ UNCHANGED roles
              /\ Goto(c, "deleteLinks")
        /\ UNCHANGED <<authVars, nodeEnv, now, userRole, nextRoleId, roleCallsStarted>>

\* a delete statement that deletes nothing
LinksAfterDelete_Kept(id) == userRole

\* update, lines 147-151: the links the DELETE leaves
LinksAfterDelete(id) == {l \in userRole : l[2] # id}

\* DELETE FROM user_role WHERE role_id = $1
UpdateDeleteLinks(c) ==
    LET role == roleCall[c].role
    IN  /\ roleCall[c].op = "update" /\ roleCall[c].pc = "deleteLinks"
        /\ \/ /\ Reject(c)
              /\ UNCHANGED userRole
           \/ /\ userRole' = LinksAfterDelete(role.id)
              /\ roleCall' = [roleCall EXCEPT ![c].pc = "insertLinks",
                                              ![c].pending = role.users]
        /\ UNCHANGED <<authVars, nodeEnv, now, roles, nextRoleId, roleCallsStarted>>

\* one INSERT INTO user_role SELECT u.id, r.id ... of the Promise.all
UpdateInsertLink(c) ==
    LET role == roleCall[c].role
    IN  /\ roleCall[c].op = "update" /\ roleCall[c].pc = "insertLinks"
        /\ \E userId \in roleCall[c].pending :
             \/ /\ Reject(c)                \* Promise.all rejects
                /\ UNCHANGED userRole
             \/ /\ userRole' = IF role.id \in DOMAIN roles
                               THEN userRole \cup {<<userId, role.id>>}
                               ELSE userRole
                /\ roleCall' = [roleCall EXCEPT
                                  ![c].pending = roleCall[c].pending \ {userId}]
        /\ UNCHANGED <<authVars, nodeEnv, now, roles, nextRoleId, roleCallsStarted>>

\* resolve(this.getById(role.id))
UpdateResolve(c) ==
    /\ roleCall[c].op = "update" /\ roleCall[c].pc = "insertLinks"
    /\ roleCall[c].pending = {}
    /\ \/ Reject(c)
       \/ Settle(c, "resolved", getById(roleCall[c].role.id).id, "")
    /\ UNCHANGED <<authVars, nodeEnv, now, roles, userRole, nextRoleId, roleCallsStarted>>

\* ---------------------------------------------------------------- remove
RemoveStart(c) ==
    /\ CanStart(c)
    /\ \E role \in RemoveArgs :
         roleCall' = [roleCall EXCEPT ![c] =
            IF RemoveGuardThrows(role)
            THEN [op |-> "remove", pc |-> "rejected",
                  role |-> [NoRole EXCEPT !.id = role.id],
                  pending |-> {}, result |-> NULL, error |-> "cannot be deleted"]
            ELSE [op |-> "remove", pc |-> "deleteLinks", role |-> role,
                  pending |-> {}, result |-> NULL, error |-> ""]]
    /\ roleCallsStarted' = roleCallsStarted + 1
    /\ UNCHANGED <<authVars, nodeEnv, now, roles, userRole, nextRoleId>>

RemoveDeleteLinks(c) ==
    /\ roleCall[c].op = "remove" /\ roleCall[c].pc = "deleteLinks"
    /\ \/ /\ Reject(c)
          /\ UNCHANGED userRole
       \/ /\ userRole' = {l \in userRole : l[2] # roleCall[c].role.id}
          /\ Goto(c, "removeRow")
    /\ UNCHANGED <<authVars, nodeEnv, now, roles, nextRoleId, roleCallsStarted>>

\* a remove that deletes the row in every environment
HardDelete_Always == TRUE

\* remove, line 199: process.env.NODE_ENV === "test"
HardDelete == nodeEnv = "test"

\* test: DELETE FROM roles; otherwise UPDATE roles SET removed = NOW(), enabled = FALSE
RemoveRow(c) ==
    LET id == roleCall[c].role.id
    IN  /\ roleCall[c].op = "remove" /\ roleCall[c].pc = "removeRow"
        /\ \/ /\ Reject(c)
              /\ UNCHANGED <<roles, userRole>>
           \/ /\ IF HardDelete
                 THEN /\ roles' = [i \in DOMAIN roles \ {id} |-> roles[i]]
                      /\ userRole' = userRole
                 ELSE /\ roles' = IF id \in DOMAIN roles
                                  THEN [roles EXCEPT ![id].removed = now,
                                                     ![id].enabled = FALSE]
                                  ELSE roles
                      /\ userRole' = userRole
              /\ Settle(c, "resolved", id, "")
        /\ UNCHANGED <<authVars, nodeEnv, now, nextRoleId, roleCallsStarted>>

\* ---------------------------------------------------------------- create
CreateStart(c) ==
    /\ CanStart(c)
    /\ \E role \in CreateArgs :
         roleCall' = [roleCall EXCEPT ![c] =
            [op |-> "create", pc |-> "insert", role |-> role,
             pending |-> {}, result |-> NULL, error |-> ""]]
    /\ roleCallsStarted' = roleCallsStarted + 1
    /\ UNCHANGED <<authVars, nodeEnv, now, roles, userRole, nextRoleId>>

\* a row that takes the enabled flag of the argument
NewRoleRow_AsGiven(role) ==
    [title |-> role.title, description |-> role.description,
     enabled |-> role.enabled, removed |-> NULL]

\* create, lines 232-238: the values of the INSERT
NewRoleRow(role) ==
    [title |-> role.title, description |-> role.description,
     enabled |-> TRUE, removed |-> NULL]

\* INSERT INTO roles (title, description, enabled) VALUES ($1, $2, true)
CreateInsert(c) ==
    LET role == roleCall[c].role
    IN  /\ roleCall[c].op = "create" /\ roleCall[c].pc = "insert"
        /\ \/ /\ Reject(c)
              /\ UNCHANGED <<roles, nextRoleId>>
           \/ /\ nextRoleId \in RoleIds
              /\ TitleFree(role.title, NULL)
              /\ roles' = [i \in DOMAIN roles \cup {nextRoleId} |->
                             IF i = nextRoleId THEN NewRoleRow(role)
                             ELSE roles[i]]
              /\ nextRoleId' = nextRoleId + 1
              /\ Goto(c, "getByName")
        /\ UNCHANGED <<authVars, nodeEnv, now, userRole, roleCallsStarted>>

\* resolve(this.getByName(role.title))
CreateResolve(c) ==
    /\ roleCall[c].op = "create" /\ roleCall[c].pc = "getByName"
    /\ \/ Reject(c)
       \/ Settle(c, "resolved", getByName(roles, roleCall[c].role.title), "")
    /\ UNCHANGED <<authVars, nodeEnv, now, roles, userRole, nextRoleId, roleCallsStarted>>

\* ============================================================ users store
\* The UserRepository (user.repository.ts) is not part of the sources at
\* hand: its contract is the one the callers rely on.
UserIds == 1 .. MaxUsers
Salts   == 1 .. MaxSalt

\* Service.hash: bcrypt with a per-call random salt
hash(password, salt) == <<salt, password>>
NoHash == <<0, "">>

\* UserEntity.comparePassword: bcrypt.compare(candidate, this.password)
comparePassword(candidate, stored) == stored[1] # 0 /\ stored[2] = candidate

NoUser ==
    [id |-> NULL, username |-> "", email |-> "", password |-> NoHash,
     enabled |-> FALSE, secret |-> "", gravatar |-> "",
     passwordResetToken |-> "", passwordResetExpires |-> NULL,
     removed |-> NULL, roles |-> {}, accounts |-> {}]

\* the entity the repository builds from a row
EntityIn(us, id) ==
    [id |-> id, username |-> us[id].username, email |-> us[id].email,
     password |-> us[id].password, enabled |-> us[id].enabled,
     secret |-> us[id].secret, gravatar |-> "gravatar",
     passwordResetToken |-> us[id].passwordResetToken,
     passwordResetExpires |-> us[id].passwordResetExpires,
     removed |-> us[id].removed,
     roles |-> {l[2] : l \in {m \in userRole : m[1] = id}},
     accounts |-> {}]

Entity(id) == EntityIn(users, id)

First(ids) == IF ids = {} THEN NoUser
              ELSE Entity(CHOOSE i \in ids : \A j \in ids : i <= j)

userGetById(id) == First({i \in DOMAIN users : i = id})

\* lookup by login name: the e-mail address or the username
userGetByName(name) ==
    First({i \in DOMAIN users :
             name # "" /\ (users[i].email = name \/ users[i].username = name)})

userGetByUsername(username) ==
    First({i \in DOMAIN users : username # "" /\ users[i].username = username})

userGetByPasswordResetToken(token) ==
    First({i \in DOMAIN users : token # "" /\ users[i].passwordResetToken = token})

\* UserRepository.update(entity): the row after user.save()
Row(u) ==
    [username |-> u.username, email |-> u.email, password |-> u.password,
     enabled |-> u.enabled, secret |-> u.secret,
     passwordResetToken |-> u.passwordResetToken,
     passwordResetExpires |-> u.passwordResetExpires, removed |-> u.removed]

userUpdate(u) == IF u.id \in DOMAIN users THEN [users EXCEPT ![u.id] = Row(u)]
                 ELSE users

\* the entity user.save() resolves with
Saved(u) == IF u.id \in DOMAIN users THEN EntityIn(userUpdate(u), u.id) ELSE NoUser

\* UserRepository.create(entity): a new row under the next id; the password
\* is stored hashed
userCreate(u, salt) ==
    [i \in DOMAIN users \cup {nextUserId} |->
        IF i = nextUserId
        THEN [Row(u) EXCEPT !.password = hash(u.password, salt)]
        ELSE users[i]]

\* ======================================================= responses, events
PublicUserFields ==
    {"id", "username", "gravatar", "email", "enabled", "removed", "expired",
     "token", "roles", "accounts"}

\* a projection that lets the credentials through
PublicUser_Leaky(user, expired, token) ==
    [id |-> user.id, username |-> user.username, gravatar |-> user.gravatar,
     email |-> user.email, enabled |-> user.enabled,
     removed |-> (user.removed # NULL), expired |-> expired, token |-> token,
     roles |-> user.roles, accounts |-> user.accounts,
     password |-> user.password, secret |-> user.secret]

\* the PublicUser literal every handler builds from an entity
PublicUser(user, expired, token) ==
    [id |-> user.id, username |-> user.username, gravatar |-> user.gravatar,
     email |-> user.email, enabled |-> user.enabled,
     removed |-> (user.removed # NULL), expired |-> expired, token |-> token,
     roles |-> user.roles, accounts |-> user.accounts]

\* a JSON body / an event payload: the keys it carries and their values
EmptyBody == [keys |-> {}, message |-> "", user |-> {}, secret |-> "",
              token |-> ""]
MsgBody(m)  == [EmptyBody EXCEPT !.keys = {"message"}, !.message = m]
\* res.json({message: e.message}): JSON drops a key whose value is undefined
ErrJson(m)  == IF m = Undefined THEN EmptyBody ELSE MsgBody(m)
ErrBody(m)  == [EmptyBody EXCEPT !.keys = {"error"}, !.message = m]
UserBody(u) == [EmptyBody EXCEPT !.keys = {"user"}, !.user = {u}]
NullUserBody == [EmptyBody EXCEPT !.keys = {"user"}]

Ev(method, code, body) ==
    [kind |-> "event", method |-> method, code |-> code, body |-> body]
Res(status, body) ==
    [kind |-> "response", method |-> "", code |-> status, body |-> body]

\* ================================================================ requests
NoCode   == [s |-> "", t |-> 0]
NoReply  == [user_id |-> "", access_token |-> "", expires_in |-> 0]

IdleReq ==
    [op |-> "idle", pc |-> "idle", auth |-> FALSE, email |-> "", password |-> "",
     username |-> "", confirm |-> "", id |-> NULL, code |-> NoCode,
     token |-> "", user |-> NoUser, r |-> NoReply, reply |-> "", qr |-> "",
     verified |-> FALSE, calls |-> <<>>, log |-> <<>>]

CanStartAuth(c) ==
    /\ req[c].pc \in {"idle", "done"}
    /\ authStarted < MaxAuthReqs

\* the handler has run to its end, emitting and sending `entries` on the way
Finish(c, entries) ==
    req' = [req EXCEPT ![c].pc = "done", ![c].log = req[c].log \o entries]

\* emit an Error event and answer 401 {message}
Fail(c, method, m) ==
    Finish(c, <<Ev(method, UNAUTHORIZED_REQUEST_CODE, ErrBody(m)),
                Res(UNAUTHORIZED_REQUEST_CODE, ErrJson(m))>>)

\* the same after a provider reply, which the request remembers
FailWith(c, method, m, reply) ==
    req' = [req EXCEPT ![c].pc = "done", ![c].reply = reply,
              ![c].log = req[c].log \o
                 <<Ev(method, UNAUTHORIZED_REQUEST_CODE, ErrBody(m)),
                   Res(UNAUTHORIZED_REQUEST_CODE, ErrJson(m))>>]

\* -------------------------------------------------- login / loginUser
\* passport-local answers `fail` (no user, no error) when a field is missing
MissingCredentials(email, password) == email = "" \/ password = ""

\* loginUser, the else branch: no error and no user
LoginNoUser ==
    <<Ev("validate", UNAUTHORIZED_REQUEST_CODE, ErrBody("no user")),
      Res(UNAUTHORIZED_REQUEST_CODE, NullUserBody)>>

\* passport.serializeUser
SerializeOk(user) == user.id # NULL

\* a verify callback that takes any password
VerifyAccepts_Any(user, password) == TRUE

\* what the verify callback hands to done() once the password was compared
VerifyAccepts(user, password) == comparePassword(password, user.password)

\* this.loginUser(req, res) up to the first await of the verify callback;
\* `user` is from here on the entity the verify callback looks up
EnterLogin(c, r) ==
    IF MissingCredentials(r.email, r.password)
    THEN req' = [req EXCEPT ![c] =
                   [r EXCEPT !.pc = "done", !.user = NoUser,
                             !.log = r.log \o LoginNoUser]]
    ELSE req' = [req EXCEPT ![c] =
                   [r EXCEPT !.pc = "login_getByName", !.user = NoUser]]

LoginNames  == {"", "a@x", "b@x", "zed"}
Passwords   == {"", "p1", "p2"}

LoginStart(c) ==
    /\ CanStartAuth(c)
    /\ \E email \in LoginNames, password \in Passwords :
         EnterLogin(c, [IdleReq EXCEPT !.op = "login", !.email = email,
                                       !.password = password])
    /\ authStarted' = authStarted + 1
    /\ UNCHANGED <<nodeEnv, now, roleVars, users, nextUserId, session>>

\* const user = await repository.getByName(email)
LoginGetByName(c) ==
    /\ req[c].pc = "login_getByName"
    /\ \/ Fail(c, "loginUser", STORE_ERROR)
       \/ LET user == userGetByName(req[c].email)
          IN  IF user.id = NULL
              THEN Fail(c, "loginUser", "no user found")
              ELSE req' = [req EXCEPT ![c].pc = "login_compare", ![c].user = user]
    /\ UNCHANGED <<nodeEnv, now, roleVars, users, nextUserId, session, authStarted>>

\* the bcrypt.compare callback, done(), req.logIn and the response
LoginCompare(c) ==
    LET user == req[c].user
    IN  /\ req[c].pc = "login_compare"
        /\ \/ /\ Fail(c, "loginUser", "bcrypt error")
              /\ UNCHANGED session
           \/ /\ ~VerifyAccepts(user, req[c].password)
              /\ Fail(c, "loginUser", "invalid email or password.")
              /\ UNCHANGED session
           \/ /\ VerifyAccepts(user, req[c].password)
              /\ IF SerializeOk(user)
                 THEN /\ session' = [session EXCEPT ![c] = user.id]
                      /\ Finish(c,
                           <<Ev("loginUser", OK_REQUEST_CODE,
                                UserBody(PublicUser(user, NULL, ""))),
                             Res(OK_REQUEST_CODE,
                                 UserBody(PublicUser(user, NULL, "")))>>)
                 ELSE /\ Fail(c, "loginUser", "incorrect credentials")
                      /\ UNCHANGED session
        /\ UNCHANGED <<nodeEnv, now, roleVars, users, nextUserId, authStarted>>

\* ------------------------------------------------------ Service.fetchJSON
\* what the provider does with one request
FetchReplies == {"ok", "neterr", "bad", "badmsg"}

\* fetchJSON(url): resolves with the JSON of a 200, resolves with the text of
\* any other status of /validate, rejects otherwise
fetchResolves(reply, isValidate) ==
    reply = "ok" \/ (isValidate /\ reply \in {"bad", "badmsg"})

\* the message of the value fetchJSON rejects with
fetchError(reply) ==
    CASE reply = "neterr" -> FETCH_ERROR
      [] reply = "badmsg" -> "provider error"
      [] OTHER            -> Undefined

\* ------------------------------------------------------------------ check
\* the JSON a 200 of /validate carries
Introspections ==
    {[user_id |-> u, access_token |-> t, expires_in |-> 3600] :
        u \in {"", "a@x", "zed"}, t \in {"tok1", "tok2"}}

\* a check that calls the provider whatever the headers are
CheckHeaderPresent_Always(auth) == TRUE

\* if (req.headers.authorization)
CheckHeaderPresent(auth) == auth

CheckStart(c) ==
    /\ CanStartAuth(c)
    /\ \E auth \in BOOLEAN :
         LET r == [IdleReq EXCEPT !.op = "check", !.auth = auth]
         IN  IF CheckHeaderPresent(auth)
             THEN req' = [req EXCEPT ![c] =
                            [r EXCEPT !.pc = "check_fetch",
                                      !.calls = <<"validate">>]]
             ELSE req' = [req EXCEPT ![c] =
                            [r EXCEPT !.pc = "done",
                               !.log = <<Ev("check", UNAUTHORIZED_REQUEST_CODE,
                                            ErrBody(ERROR_VALIDATION)),
                                         Res(UNAUTHORIZED_REQUEST_CODE,
                                             MsgBody(ERROR_VALIDATION))>>]]
    /\ authStarted' = authStarted + 1
    /\ UNCHANGED <<nodeEnv, now, roleVars, users, nextUserId, session>>

\* Service.fetchJSON(.../api/v1/validate).then(r => ...).catch(...)
CheckFetched(c) ==
    /\ req[c].pc = "check_fetch"
    /\ \E reply \in FetchReplies :
         IF ~fetchResolves(reply, TRUE)
         THEN FailWith(c, "check", fetchError(reply), reply)
         ELSE IF reply # "ok"
         THEN FailWith(c, "check", "invalid token", reply)  \* typeof r === "string"
         ELSE \/ FailWith(c, "check", "TypeError", reply)   \* r is null: r["user_id"]
              \/ \E r \in Introspections :
                   IF r.user_id # ""
                   THEN req' = [req EXCEPT ![c].pc = "check_getByName",
                                           ![c].r = r, ![c].reply = reply]
                   ELSE req' = [req EXCEPT ![c].pc = "done", ![c].r = r,
                                  ![c].reply = reply]   \* no branch answers
    /\ UNCHANGED <<nodeEnv, now, roleVars, users, nextUserId, session, authStarted>>

\* this.repository.getByName(r["user_id"]).then(...).catch(...)
CheckGetByName(c) ==
    /\ req[c].pc = "check_getByName"
    /\ \/ Fail(c, "check", STORE_ERROR)
       \/ LET user == userGetByName(req[c].r.user_id)
              pub  == PublicUser(user, req[c].r.expires_in, req[c].r.access_token)
          IN  IF user.id # NULL
              THEN req' = [req EXCEPT ![c].pc = "done", ![c].user = user,
                             ![c].log = <<Ev("check", OK_REQUEST_CODE, UserBody(pub)),
                                          Res(OK_REQUEST_CODE, UserBody(pub))>>]
              ELSE Finish(c, <<Ev("check", UNAUTHORIZED_REQUEST_CODE,
                                  ErrBody("no user")),
                               Res(UNAUTHORIZED_REQUEST_CODE, NullUserBody)>>)
    /\ UNCHANGED <<nodeEnv, now, roleVars, users, nextUserId, session, authStarted>>

\* ------------------------------------------------------------------ ga2fa
\* Config.testUser (util/secrets)
TEST_USERNAME == "test"
TEST_SECRET   == "TESTSECRET"
TestCode      == [s |-> "testcode", t |-> 0]

Secrets == {"S1", "S2"}          \* what GoogleAuthenticator.register can draw

\* the code an authenticator shows for `secret` in time step t
Totp(secret, t) == [s |-> secret, t |-> t]

\* speakeasy.totp.verify({secret, encoding: "base32", token})
totpVerify(secret, code) == secret # "" /\ code = Totp(secret, now)

\* a setter that gives every user the secret of the test account
setSecret_AlwaysFixed(user, secret) == [user EXCEPT !.secret = TEST_SECRET]

\* UserEntity.setSecret
setSecret(user, secret) ==
    IF user.username = TEST_USERNAME
    THEN [user EXCEPT !.secret = TEST_SECRET]
    ELSE [user EXCEPT !.secret = secret]

\* an acceptance test that takes the bypass code whatever the stored secret is
CodeAccepted_AnySecret(user, code, verified) ==
    verified \/ code = TestCode

\* ga2fa, line 269
CodeAccepted(user, code, verified) ==
    verified \/ (user.secret = TEST_SECRET /\ code = TestCode)

\* a handler that never takes the mock branch
UseMockProvider_Never == FALSE

\* ga2fa, line 271: process.env["NODE_ENV"] === "test"
UseMockProvider == nodeEnv = "test"

Ga2faIds   == {NULL, 1, 2, 3, 9}
Ga2faCodes == {NoCode, TestCode} \cup {Totp("S1", t) : t \in 1 .. MaxNow}

DataBody   == [EmptyBody EXCEPT !.keys = {"status", "data"}]
EnrollBody(secret) == [EmptyBody EXCEPT !.keys = {"qr", "secret"}, !.secret = secret]
EnrollEvent(u, secret) ==
    [EmptyBody EXCEPT !.keys = {"user", "qrInfo"}, !.user = {u}, !.secret = secret]

Ga2faStart(c) ==
    /\ CanStartAuth(c)
    /\ \E id \in Ga2faIds, code \in Ga2faCodes :
         LET r == [IdleReq EXCEPT !.op = "ga2fa", !.id = id, !.code = code]
         IN  IF id # NULL
             THEN req' = [req EXCEPT ![c] = [r EXCEPT !.pc = "ga_getById"]]
             ELSE req' = [req EXCEPT ![c] =
                    [r EXCEPT !.pc = "done",
                       !.log = <<Ev("ga2fa", UNAUTHORIZED_REQUEST_CODE,
                                    ErrBody(ERROR_GA2FA_INCORRECT_CODE)),
                                 Res(UNAUTHORIZED_REQUEST_CODE,
                                     MsgBody(ERROR_GA2FA_INCORRECT_CODE))>>]]
    /\ authStarted' = authStarted + 1
    /\ UNCHANGED <<nodeEnv, now, roleVars, users, nextUserId, session>>

\* a handler that works on the user of the session
Ga2faUser_FromSession(c) == userGetById(session[c])

\* ga2fa, lines 234-235: the user is looked up by the id of the body
Ga2faUser(c) == userGetById(req[c].id)

\* .getById(req.body.id).then(user => ...).catch(...)
Ga2faGetById(c) ==
    LET user     == Ga2faUser(c)
        code     == req[c].code
        verified == totpVerify(user.secret, code)
    IN  /\ req[c].pc = "ga_getById"
        /\ \/ Fail(c, "ga2fa", ERROR_GA2FA_INCORRECT_CODE)     \* the query fails
           \/ /\ user.id = NULL
              /\ Fail(c, "ga2fa", ERROR_GA2FA_INCORRECT_CODE)
           \/ /\ user.id # NULL
              /\ user.secret = "" /\ code = NoCode
              /\ \E secret \in Secrets :
                   req' = [req EXCEPT ![c].pc = "ga_save", ![c].qr = secret,
                                      ![c].user = setSecret(user, secret)]
           \/ /\ user.id # NULL
              /\ ~(user.secret = "" /\ code = NoCode)
              /\ IF code # NoCode
                 THEN IF CodeAccepted(user, code, verified)
                      THEN IF UseMockProvider
                           THEN req' = [req EXCEPT ![c].pc = "done",
                                   ![c].user = user, ![c].verified = verified,
                                   ![c].log = <<Res(OK_REQUEST_CODE, DataBody)>>]
                           ELSE req' = [req EXCEPT ![c].pc = "ga_credentials",
                                   ![c].user = user, ![c].verified = verified,
                                   ![c].calls = <<"credentials">>]
                      ELSE req' = [req EXCEPT ![c].pc = "done", ![c].user = user,
                              ![c].log =
                                <<Ev("ga2fa", UNAUTHORIZED_REQUEST_CODE,
                                     ErrBody(ERROR_GA2FA_INCORRECT_CODE)),
                                  Res(UNAUTHORIZED_REQUEST_CODE,
                                      MsgBody(ERROR_GA2FA_INCORRECT_CODE))>>]
                 ELSE req' = [req EXCEPT ![c].pc = "done", ![c].user = user,
                         ![c].log = <<Ev("ga2fa", OK_REQUEST_CODE,
                                         ErrBody(ERROR_GA2FA_NO_CODE)),
                                      Res(OK_REQUEST_CODE,
                                          MsgBody(ERROR_GA2FA_NO_CODE))>>]
        /\ UNCHANGED <<nodeEnv, now, roleVars, users, nextUserId, session, authStarted>>

\* user.save().then(u => ...).catch(...)
Ga2faSave(c) ==
    LET user == req[c].user
    IN  /\ req[c].pc = "ga_save"
        /\ \/ /\ Fail(c, "ga2fa", STORE_ERROR)
              /\ UNCHANGED users
           \/ /\ users' = userUpdate(user)
              /\ Finish(c, <<Ev("ga2fa", OK_REQUEST_CODE,
                                EnrollEvent(Saved(user), req[c].qr)),
                             Res(OK_REQUEST_CODE, EnrollBody(req[c].qr))>>)
        /\ UNCHANGED <<nodeEnv, now, roleVars, nextUserId, session, authStarted>>

\* one hop of the exchange answered: credentials, then the authorization code
Ga2faHop(c) ==
    /\ req[c].pc \in {"ga_credentials", "ga_authorize"}
    /\ \E reply \in FetchReplies :
         IF fetchResolves(reply, FALSE)
         THEN IF req[c].pc = "ga_credentials"
              THEN req' = [req EXCEPT ![c].pc = "ga_authorize", ![c].reply = reply,
                             ![c].calls = Append(req[c].calls, "authorize")]
              ELSE req' = [req EXCEPT ![c].pc = "ga_token", ![c].reply = reply,
                             ![c].calls = Append(req[c].calls, "token")]
         ELSE FailWith(c, "ga2fa", fetchError(reply), reply)
    /\ UNCHANGED <<nodeEnv, now, roleVars, users, nextUserId, session, authStarted>>

\* auth.code.getToken(...).then(r => ...).catch(...)
Ga2faToken(c) ==
    /\ req[c].pc = "ga_token"
    /\ \/ FailWith(c, "ga2fa", "token error", "bad")
       \/ req' = [req EXCEPT ![c].pc = "done", ![c].reply = "ok",
             ![c].log = <<Ev("ga2fa", OK_REQUEST_CODE, DataBody),
                          Res(OK_REQUEST_CODE, DataBody)>>]
    /\ UNCHANGED <<nodeEnv, now, roleVars, users, nextUserId, session, authStarted>>

\* ----------------------------------------------------------------- signup
SignupArgs ==
    {[IdleReq EXCEPT !.op = "signup", !.username = u, !.email = e,
                     !.password = pc[1], !.confirm = pc[2]] :
        u \in {"", "alice", "bob", "carol"}, e \in {"", "a@x", "b@x", "c@x"},
        pc \in {<<"", "p1">>, <<"p1", "p2">>, <<"p2", "p2">>,
                 <<Undefined, Undefined>>}}        \* the last: a body without them

\* a test of the delete marker that takes every record for soft-deleted
IsRemoved_Always(found) == TRUE

\* signup, lines 406 and 438: found.removed !== null
IsRemoved(found) == found.removed # NULL

\* a reactivation that leaves the delete marker in place
Reactivated_StillRemoved(found) == [found EXCEPT !.enabled = TRUE]

\* signup, lines 407-408 and 439-440: removed = undefined, enabled = true
Reactivated(found) == [found EXCEPT !.removed = NULL, !.enabled = TRUE]

\* a new entity that starts disabled
NewUserEntity_Disabled(r) ==
    [NoUser EXCEPT !.username = r.username, !.email = r.email,
                   !.password = r.password, !.enabled = FALSE]

\* signup, line 467: new UserEntity(null, username, email, password, true)
NewUserEntity(r) ==
    [NoUser EXCEPT !.username = r.username, !.email = r.email,
                   !.password = r.password, !.enabled = TRUE]

\* a signup that looks the e-mail up before the username
SignupFirstStep_EmailFirst(r) ==
    IF r.email # "" THEN "su_getByName"
    ELSE IF r.username # "" THEN "su_getByUsername" ELSE "su_create"

\* signup, lines 403, 435 and 467: the first store call of a valid signup
SignupFirstStep(r) ==
    IF r.username # "" THEN "su_getByUsername"
    ELSE IF r.email # "" THEN "su_getByName" ELSE "su_create"

UserOkEntries(pub) ==
    <<Ev("signup", OK_REQUEST_CODE, UserBody(pub)),
      Res(OK_REQUEST_CODE, UserBody(pub))>>

SignupStart(c) ==
    /\ CanStartAuth(c)
    /\ \E r \in SignupArgs :
         IF r.password = ""
         THEN req' = [req EXCEPT ![c] = [r EXCEPT !.pc = "done",
                 !.log = <<Ev("signup", UNAUTHORIZED_REQUEST_CODE,
                              ErrBody(ERROR_AUTH_EMPTY_PASSWORD_CREDENTIALS)),
                           Res(UNAUTHORIZED_REQUEST_CODE,
                               MsgBody(ERROR_AUTH_EMPTY_PASSWORD_CREDENTIALS))>>]]
         ELSE IF r.password # r.confirm
         THEN req' = [req EXCEPT ![c] = [r EXCEPT !.pc = "done",
                 !.log = <<Ev("signup", UNAUTHORIZED_REQUEST_CODE,
                              ErrBody(ERROR_AUTH_PASSWORD_NOT_MATCH_CREDENTIALS)),
                           Res(UNAUTHORIZED_REQUEST_CODE,
                               MsgBody(ERROR_AUTH_PASSWORD_NOT_MATCH_CREDENTIALS))>>]]
         ELSE req' = [req EXCEPT ![c] = [r EXCEPT !.pc = SignupFirstStep(r)]]
    /\ authStarted' = authStarted + 1
    /\ UNCHANGED <<nodeEnv, now, roleVars, users, nextUserId, session>>

\* the reactivate-or-conflict check, by username and then by email
SignupLookup(c) ==
    LET byUsername == req[c].pc = "su_getByUsername"
        found == IF byUsername THEN userGetByUsername(req[c].username)
                 ELSE userGetByName(req[c].email)
    IN  /\ req[c].pc \in {"su_getByUsername", "su_getByName"}
        /\ \/ Fail(c, "signup", STORE_ERROR)
           \/ /\ found.id # NULL /\ IsRemoved(found)
              /\ req' = [req EXCEPT ![c].pc = "su_save",
                                 ![c].user = Reactivated(found)]
           \* the message is the name found followed by the error text
           \/ /\ found.id # NULL /\ ~IsRemoved(found)
              /\ Fail(c, "signup",
                      IF byUsername THEN ERROR_AUTH_USERNAME ELSE ERROR_AUTH_EMAIL)
           \/ /\ found.id = NULL
              /\ req' = [req EXCEPT ![c].pc =
                    IF byUsername /\ req[c].email # "" THEN "su_getByName"
                    ELSE "su_create"]
        /\ UNCHANGED <<nodeEnv, now, roleVars, users, nextUserId, session, authStarted>>

\* const user = await userByUsername.save()  /  await userByEmail.save()
SignupSave(c) ==
    LET user == req[c].user
    IN  /\ req[c].pc = "su_save"
        /\ \/ /\ Fail(c, "signup", STORE_ERROR)
              /\ UNCHANGED users
           \/ /\ users' = userUpdate(user)
              /\ Finish(c, UserOkEntries(PublicUser(Saved(user), NULL, "")))
        /\ UNCHANGED <<nodeEnv, now, roleVars, nextUserId, session, authStarted>>

\* await repository.create(new UserEntity(null, username, email, password, true))
SignupCreate(c) ==
    LET entity == NewUserEntity(req[c])
    IN  /\ req[c].pc = "su_create"
        /\ \/ /\ Fail(c, "signup", STORE_ERROR)
              /\ UNCHANGED <<users, nextUserId>>
           \/ /\ nextUserId \in UserIds
              /\ \E salt \in Salts :
                   /\ users' = userCreate(entity, salt)
                   /\ req' = [req EXCEPT ![c].pc = "done",
                        ![c].user = EntityIn(userCreate(entity, salt), nextUserId),
                        ![c].log = UserOkEntries(PublicUser(
                            EntityIn(userCreate(entity, salt), nextUserId), NULL, ""))]
              /\ nextUserId' = nextUserId + 1
        /\ UNCHANGED <<nodeEnv, now, roleVars, session, authStarted>>

\* --------------------------------------------------------------- callback
Callback(c) ==
    /\ CanStartAuth(c)
    /\ req' = [req EXCEPT ![c] = [IdleReq EXCEPT !.op = "callback", !.pc = "done",
          !.log = <<Ev("callback", OK_REQUEST_CODE,
                       [EmptyBody EXCEPT !.keys = {"code", "state", "originalUrl"}]),
                    Res(OK_REQUEST_CODE,
                       [EmptyBody EXCEPT !.keys = {"code", "state", "originalUrl"}])>>]]
    /\ authStarted' = authStarted + 1
    /\ UNCHANGED <<nodeEnv, now, roleVars, users, nextUserId, session>>

\* ----------------------------------------------------------------- logout
\* a guard that takes a missing id for an id
LogoutHasId_Always(id) == TRUE

\* logout, line 517: if (req.body.id)
LogoutHasId(id) == id # NULL

LogoutStart(c) ==
    /\ CanStartAuth(c)
    /\ \E id \in Ga2faIds :
         LET r == [IdleReq EXCEPT !.op = "logout", !.id = id]
         IN  IF LogoutHasId(id)
             THEN req' = [req EXCEPT ![c] = [r EXCEPT !.pc = "lo_getById"]]
             ELSE req' = [req EXCEPT ![c] = [r EXCEPT !.pc = "done",
                     !.log = <<Ev("logout", UNAUTHORIZED_REQUEST_CODE,
                                  ErrBody(ERROR_VALIDATION)),
                               Res(UNAUTHORIZED_REQUEST_CODE,
                                   MsgBody(ERROR_VALIDATION))>>]]
    /\ authStarted' = authStarted + 1
    /\ UNCHANGED <<nodeEnv, now, roleVars, users, nextUserId, session>>

\* repository.getById(req.body.id).then(user => ...).catch(...)
LogoutGetById(c) ==
    LET user == userGetById(req[c].id)
    IN  /\ req[c].pc = "lo_getById"
        /\ \/ Fail(c, "logout", STORE_ERROR)
           \/ IF user.id = NULL
              THEN Fail(c, "logout", ERROR_AUTH_USERNAME)
              ELSE req' = [req EXCEPT ![c].pc = "done", ![c].user = user,
                      ![c].log = <<Ev("logout", OK_REQUEST_CODE,
                                      UserBody(PublicUser(user, NULL, ""))),
                                   Res(OK_REQUEST_CODE,
                                       UserBody(PublicUser(user, NULL, "")))>>]
        /\ UNCHANGED <<nodeEnv, now, roleVars, users, nextUserId, session, authStarted>>

\* ----------------------------------------------------------------- forgot
Tokens == {"T1", "T2", "T3"}     \* what createRandomToken can draw

\* 16 random bytes in hex: a value that is neither stored as a token nor was
\* presented by a request so far
FreshTokens ==
    Tokens \ ( {users[i].passwordResetToken : i \in DOMAIN users}
               \cup {req[c].token : c \in Slots} )

\* an expiry that is the time of issuance itself
ResetExpiry_NoLifetime(t) == t

\* forgot, line 588: user.passwordResetExpires = Date.now() + 3600000
ResetExpiry(t) == t + RESET_TTL

ForgotStart(c) ==
    /\ CanStartAuth(c)
    /\ \E email \in LoginNames :
         LET r == [IdleReq EXCEPT !.op = "forgot", !.email = email]
         IN  IF email = ""
             THEN req' = [req EXCEPT ![c] = [r EXCEPT !.pc = "done",
                     !.log = <<Ev("forgot", UNAUTHORIZED_REQUEST_CODE,
                                  ErrBody(ERROR_AUTH_EMPTY_EMAIL)),
                               Res(UNAUTHORIZED_REQUEST_CODE,
                                   MsgBody(ERROR_AUTH_EMPTY_EMAIL))>>]]
             ELSE req' = [req EXCEPT ![c] = [r EXCEPT !.pc = "fo_getByName"]]
    /\ authStarted' = authStarted + 1
    /\ UNCHANGED <<nodeEnv, now, roleVars, users, nextUserId, session>>

\* repository.getByName(email).then(user => ...), createRandomToken().then(...)
ForgotGetByName(c) ==
    LET user == userGetByName(req[c].email)
    IN  /\ req[c].pc = "fo_getByName"
        /\ \/ Fail(c, "forgot", STORE_ERROR)
           \/ /\ user.id = NULL
              /\ Fail(c, "forgot", ERROR_AUTH_INVALID_EMAIL)
           \/ /\ user.id # NULL
              /\ \E token \in FreshTokens :
                   req' = [req EXCEPT ![c].pc = "fo_save", ![c].token = token,
                      ![c].user = [user EXCEPT !.passwordResetToken = token,
                                      !.passwordResetExpires = ResetExpiry(now)]]
        /\ UNCHANGED <<nodeEnv, now, roleVars, users, nextUserId, session, authStarted>>

\* user.save().then(u => ...).catch(...)
ForgotSave(c) ==
    LET user == req[c].user
        u    == Saved(user)
        pub  == [PublicUser(u, NULL, "") EXCEPT !.roles = user.roles,
                                               !.accounts = user.accounts]
        body == [EmptyBody EXCEPT !.keys = {"user", "token"}, !.user = {pub},
                                  !.token = req[c].token]
    IN  /\ req[c].pc = "fo_save"
        /\ \/ /\ Fail(c, "forgot", STORE_ERROR)
              /\ UNCHANGED users
           \/ /\ users' = userUpdate(user)
              /\ Finish(c, <<Ev("logout", OK_REQUEST_CODE, body),
                             Res(OK_REQUEST_CODE, body)>>)
        /\ UNCHANGED <<nodeEnv, now, roleVars, nextUserId, session, authStarted>>

\* ------------------------------------------------------------------ reset
ResetTokens == {"", ":token", "T1", "T2"}

ResetStart(c) ==
    /\ CanStartAuth(c)
    /\ \E token \in ResetTokens, password \in Passwords :
         LET r == [IdleReq EXCEPT !.op = "reset", !.token = token,
                                  !.password = password]
         IN  IF token = "" \/ token = ":token"
             THEN req' = [req EXCEPT ![c] = [r EXCEPT !.pc = "done",
                     !.log = <<Ev("reset", UNAUTHORIZED_REQUEST_CODE,
                                  ErrBody(ERROR_AUTH_INVALID_RESET_TOKEN)),
                               Res(UNAUTHORIZED_REQUEST_CODE,
                                   MsgBody(ERROR_AUTH_INVALID_RESET_TOKEN))>>]]
             ELSE req' = [req EXCEPT ![c] = [r EXCEPT !.pc = "rs_getByToken"]]
    /\ authStarted' = authStarted + 1
    /\ UNCHANGED <<nodeEnv, now, roleVars, users, nextUserId, session>>

\* repository.getByPasswordResetToken(token).then(user => ...): no catch
ResetGetByToken(c) ==
    LET user == userGetByPasswordResetToken(req[c].token)
    IN  /\ req[c].pc = "rs_getByToken"
        /\ \/ Finish(c, <<>>)                 \* the query fails: nothing handles it
           \/ IF user.id = NULL
              THEN Fail(c, "reset", ERROR_AUTH_INVALID_RESET_TOKEN)
              ELSE req' = [req EXCEPT ![c].pc = "rs_hash", ![c].user = user]
        /\ UNCHANGED <<nodeEnv, now, roleVars, users, nextUserId, session, authStarted>>

\* Service.hash(req.body.password).then(password => ...).catch(...)
ResetHash(c) ==
    /\ req[c].pc = "rs_hash"
    /\ \/ Fail(c, "reset", "bcrypt error")
       \/ \E salt \in Salts :
            req' = [req EXCEPT ![c].pc = "rs_save",
               ![c].user = [req[c].user EXCEPT
                              !.password = hash(req[c].password, salt),
                              !.passwordResetToken = "",
                              !.passwordResetExpires = NULL]]
    /\ UNCHANGED <<nodeEnv, now, roleVars, users, nextUserId, session, authStarted>>

\* user.save().then(u => { req.body.email = ...; this.loginUser(req, res) })
ResetSave(c) ==
    LET user == req[c].user
        u    == Saved(user)
    IN  /\ req[c].pc = "rs_save"
        /\ \/ /\ Fail(c, "reset", STORE_ERROR)
              /\ UNCHANGED users
           \/ /\ users' = userUpdate(user)
              /\ EnterLogin(c, [req[c] EXCEPT
                    !.email = IF u.email # "" THEN u.email ELSE u.username])
        /\ UNCHANGED <<nodeEnv, now, roleVars, nextUserId, session, authStarted>>

\* ----------------------------------------------------------------- clock
Tick ==
    /\ now < MaxNow
    /\ now' = now + 1
    /\ UNCHANGED <<nodeEnv, roleVars, authVars>>

\* ------------------------------------------------------------------ Init
PendingToken == "T1"     \* the reset token alice holds at the start

InitRoles ==
    /\ roles = [i \in ProtectedRoleIds \cup {4} |->
                  [title |-> CASE i = SUPERADMIN_ROLE_ID -> "superadmin"
                               [] i = ADMIN_ROLE_ID -> "admin"
                               [] i = USER_ROLE_ID -> "user"
                               [] OTHER -> "editor",
                   description |-> "", enabled |-> TRUE, removed |-> NULL]]
    /\ userRole = {<<1, SUPERADMIN_ROLE_ID>>, <<2, USER_ROLE_ID>>, <<1, 4>>}
    /\ nextRoleId = 5
    /\ roleCall = [c \in Slots |-> IdleCall]
    /\ roleCallsStarted = 0

\* alice is active, bob was removed (soft-deleted, disabled) after enrolling
\* a TOTP secret, test is the reserved test account of the configuration
InitialUsers ==
    [i \in 1 .. 3 |->
          [username |-> CASE i = 1 -> "alice" [] i = 2 -> "bob" [] OTHER -> "test",
           email    |-> CASE i = 1 -> "a@x" [] i = 2 -> "b@x" [] OTHER -> "t@x",
           password |-> hash("p1", 1),
           enabled  |-> (i # 2),
           secret   |-> IF i = 2 THEN "S1" ELSE "",
           \* alice asked for a reset an hour ago: her token expires after now
           passwordResetToken   |-> IF i = 1 THEN PendingToken ELSE "",
           passwordResetExpires |-> IF i = 1 THEN 1 ELSE NULL,
           removed  |-> IF i = 2 THEN 1 ELSE NULL]]

InitStore ==
    /\ nextUserId = 4
    /\ req = [c \in Slots |-> IdleReq]
    /\ authStarted = 0

InitUsers ==
    /\ users = InitialUsers
    /\ InitStore
    /\ session = [c \in Slots |-> NULL]

Init ==
    /\ nodeEnv \in {"test", "production"}
    /\ now = 1
    /\ InitRoles
    /\ InitUsers

NextRole ==
    \/ \E c \in Slots : UpdateStart(c)
    \/ \E c \in Slots : UpdateGetById(c)
    \/ \E c \in Slots : UpdateRow(c)
    \/ \E c \in Slots : UpdateDeleteLinks(c)
    \/ \E c \in Slots : UpdateInsertLink(c)
    \/ \E c \in Slots : UpdateResolve(c)
    \/ \E c \in Slots : RemoveStart(c)
    \/ \E c \in Slots : RemoveDeleteLinks(c)
    \/ \E c \in Slots : RemoveRow(c)
    \/ \E c \in Slots : CreateStart(c)
    \/ \E c \in Slots : CreateInsert(c)
    \/ \E c \in Slots : CreateResolve(c)

SpecRole == Init /\ [][NextRole]_vars

NextAuth ==
    \/ Tick
    \/ \E c \in Slots : LoginStart(c)
    \/ \E c \in Slots : LoginGetByName(c)
    \/ \E c \in Slots : LoginCompare(c)
    \/ \E c \in Slots : CheckStart(c)
    \/ \E c \in Slots : CheckFetched(c)
    \/ \E c \in Slots : CheckGetByName(c)
    \/ \E c \in Slots : Ga2faStart(c)
    \/ \E c \in Slots : Ga2faGetById(c)
    \/ \E c \in Slots : Ga2faSave(c)
    \/ \E c \in Slots : Ga2faHop(c)
    \/ \E c \in Slots : Ga2faToken(c)
    \/ \E c \in Slots : SignupStart(c)
    \/ \E c \in Slots : SignupLookup(c)
    \/ \E c \in Slots : SignupSave(c)
    \/ \E c \in Slots : SignupCreate(c)
    \/ \E c \in Slots : Callback(c)
    \/ \E c \in Slots : LogoutStart(c)
    \/ \E c \in Slots : LogoutGetById(c)
    \/ \E c \in Slots : ForgotStart(c)
    \/ \E c \in Slots : ForgotGetByName(c)
    \/ \E c \in Slots : ForgotSave(c)
    \/ \E c \in Slots : ResetStart(c)
    \/ \E c \in Slots : ResetGetByToken(c)
    \/ \E c \in Slots : ResetHash(c)
    \/ \E c \in Slots : ResetSave(c)

SpecAuth == Init /\ [][NextAuth]_vars

\* ga2fa requests of clients of which some have logged in with a password
\* before: the session of such a client is bound to alice or to the test
\* account (loginUser, req.logIn). Alice has enrolled a secret before, or not.
InitAfterLogin ==
    /\ nodeEnv \in {"test", "production"}
    /\ now = 1
    /\ InitRoles
    /\ users \in {InitialUsers, [InitialUsers EXCEPT ![1].secret = "S1"]}
    /\ InitStore
    /\ session \in [Slots -> {NULL, 1, 3}]

NextGa2fa ==
    \/ Tick
    \/ \E c \in Slots : Ga2faStart(c)
    \/ \E c \in Slots : Ga2faGetById(c)
    \/ \E c \in Slots : Ga2faSave(c)
    \/ \E c \in Slots : Ga2faHop(c)
    \/ \E c \in Slots : Ga2faToken(c)

SpecGa2fa == InitAfterLogin /\ [][NextGa2fa]_vars

\* ================================================================= claims
\* ------------------------------------------------------------------- roles
\* C1: after any sequence of role create/update/remove calls each protected
\* role is still stored, still enabled and not soft-deleted (removed is null).
C1_ProtectedRolesIntact ==
    \A id \in ProtectedRoleIds :
        /\ id \in DOMAIN roles
        /\ roles[id].enabled
        /\ roles[id].removed = NULL

\* C2: update(role) of a protected role whose enabled flag differs from the
\* stored one rejects at the guard, and that step leaves the role rows and the
\* membership links as they were.
C2_ProtectedToggleRejected ==
    [][\A c \in Slots :
         LET role == roleCall[c].role
         IN  ( /\ roleCall[c].op = "update" /\ roleCall[c].pc = "getById"
               /\ roleCall'[c] # roleCall[c]
               /\ role.id \in ProtectedRoleIds
               /\ role.id \in DOMAIN roles
               /\ roles[role.id].enabled # role.enabled )
             => ( /\ roleCall'[c].pc = "rejected"
                  /\ roles' = roles
                  /\ userRole' = userRole )]_vars

C2_Witness ==
    \E c \in Slots :
        /\ roleCall[c].op = "update" /\ roleCall[c].pc = "rejected"
        /\ roleCall[c].error = "cannot be disabled"
        /\ roleCall[c].role.id \in ProtectedRoleIds

\* C3: remove(role) of a protected role id rejects, in test and non-test
\* configuration alike: every step such a call takes ends it rejected and
\* leaves the role rows and the membership links as they were.
C3_ProtectedRemoveRejected ==
    [][\A c \in Slots :
         ( /\ roleCall'[c].op = "remove"
           /\ roleCall'[c].role.id \in ProtectedRoleIds
           /\ roleCall'[c] # roleCall[c] )
         => ( /\ roleCall'[c].pc = "rejected"
              /\ roles' = roles
              /\ userRole' = userRole )]_vars

C3_Witness ==
    \E c \in Slots :
        /\ roleCall[c].op = "remove" /\ roleCall[c].pc = "rejected"
        /\ roleCall[c].error = "cannot be deleted"
        /\ roleCall[c].role.id = USER_ROLE_ID
        /\ nodeEnv = "test"

\* -------------------------------------------------------------------- auth
Responses(r) == SelectSeq(r.log, LAMBDA e : e.kind = "response")
Events(r)    == SelectSeq(r.log, LAMBDA e : e.kind = "event")
\* the status the request was answered with, 0 while it is not answered
Status(r)    == IF Responses(r) = <<>> THEN 0 ELSE Responses(r)[1].code
\* loginUser compared the password of the user it looked up
LoginCompared(r) ==
    /\ r.op \in {"login", "reset"} /\ r.pc = "done"
    /\ r.user.id # NULL
    /\ Events(r) # <<>> /\ Events(r)[1].method = "loginUser"
NameMatches(user, name) == user.email = name \/ user.username = name

\* C4: login with the correct password of a user whose enabled flag is false
\* is answered 401 and establishes no session, on every path that logs a user
\* in (login, and the login that ends reset).
C4_DisabledLoginRejected ==
    \A c \in Slots :
        LET r == req[c]
        IN  ( /\ LoginCompared(r)
              /\ ~r.user.enabled
              /\ comparePassword(r.password, r.user.password) )
            => ( /\ Status(r) = UNAUTHORIZED_REQUEST_CODE
                 /\ session[c] # r.user.id )

\* C5: login answers 200 and binds the session to the user's id only if a
\* stored user matches the identifier and the password matches its hash; an
\* unknown user or a mismatch is answered 401 and the session stays as it was.
LoginOk(r, sess) ==
    /\ r.user.id \in DOMAIN users
    /\ NameMatches(r.user, r.email)
    /\ comparePassword(r.password, r.user.password)
    /\ Status(r) = OK_REQUEST_CODE
    /\ sess = r.user.id

C5_LoginOnlyOnMatch ==
    [][\A c \in Slots :
         /\ ( /\ req'[c].op \in {"login", "reset"} /\ req'[c].pc = "done"
              /\ Status(req'[c]) = OK_REQUEST_CODE )
            => LoginOk(req'[c], session'[c])
         /\ session'[c] # session[c] => LoginOk(req'[c], session'[c])
         /\ ( /\ req[c].pc = "login_getByName" /\ req'[c] # req[c]
              /\ userGetByName(req[c].email).id = NULL )
            => ( /\ req'[c].pc = "done"
                 /\ Status(req'[c]) = UNAUTHORIZED_REQUEST_CODE
                 /\ session'[c] = session[c] )
         /\ ( /\ req[c].pc = "login_compare" /\ req'[c] # req[c]
              /\ ~comparePassword(req[c].password, req[c].user.password) )
            => ( /\ req'[c].pc = "done"
                 /\ Status(req'[c]) = UNAUTHORIZED_REQUEST_CODE
                 /\ session'[c] = session[c] )]_vars

C5_Witness ==
    \E c \in Slots :
        /\ req[c].op = "login" /\ req[c].pc = "done"
        /\ Status(req[c]) = OK_REQUEST_CODE
        /\ session[c] = req[c].user.id /\ session[c] # NULL

\* C6: no response of check, login, signup, forgot, reset or logout carries a
\* password hash or a TOTP secret: every user object sent has exactly the
\* fields of the Public User View.
C6_ResponsesRedacted ==
    \A c \in Slots :
        req[c].op \in {"check", "login", "signup", "forgot", "reset", "logout"}
        => \A i \in 1 .. Len(req[c].log) :
              LET e == req[c].log[i]
              IN  e.kind = "response"
                  => /\ \A u \in e.body.user : DOMAIN u = PublicUserFields
                     /\ e.body.keys \cap {"password", "secret"} = {}
                     /\ e.body.secret = ""

C6_Witness ==
    \E c \in Slots :
        /\ req[c].op = "forgot" /\ Status(req[c]) = OK_REQUEST_CODE
        /\ \E u \in Responses(req[c])[1].body.user : u.id = 2

\* C7: in every branch of every handler exactly one auth event is emitted
\* before the response is sent, and its code is the status of the response.
C7_OneEventBeforeResponse ==
    \A c \in Slots :
        \A i \in 1 .. Len(req[c].log) :
            req[c].log[i].kind = "response"
            => /\ i = 2 /\ Len(req[c].log) = 2
               /\ req[c].log[1].kind = "event"
               /\ req[c].log[1].code = req[c].log[2].code

\* C8: every failure outcome is a response with status 401 whose body carries
\* a message string.
C8_FailureIs401WithMessage ==
    \A c \in Slots :
        \A i \in 1 .. Len(req[c].log) :
            LET e == req[c].log[i]
            IN  (e.kind = "response" /\ e.code # OK_REQUEST_CODE)
                => /\ e.code = UNAUTHORIZED_REQUEST_CODE
                   /\ "message" \in e.body.keys

\* C9: every request receives exactly one response, whatever the store and
\* the provider reply: a handler that has run to its end has answered once.
C9_ExactlyOneResponse ==
    \A c \in Slots :
        req[c].pc = "done" => Len(Responses(req[c])) = 1

\* C10: check answers 200 with a user only when the Authorization header is
\* present, the introspection accepted the token and its subject is a stored
\* user, and the token and expiry returned are those of the introspection;
\* without the header it answers 401 and never calls the provider; a rejected
\* token and an unknown subject are answered 401.
C10_CheckContract ==
    \A c \in Slots :
        LET r == req[c]
        IN  (r.op = "check" /\ r.pc = "done")
            => /\ Status(r) = OK_REQUEST_CODE
                  => /\ r.auth /\ r.calls = <<"validate">> /\ r.reply = "ok"
                     /\ r.r.user_id # ""
                     /\ r.user.id \in DOMAIN users
                     /\ NameMatches(r.user, r.r.user_id)
                     /\ Responses(r)[1].body.user # {}
                     /\ \A u \in Responses(r)[1].body.user :
                           /\ u.id = r.user.id
                           /\ u.token = r.r.access_token
                           /\ u.expired = r.r.expires_in
               /\ ~r.auth
                  => /\ Status(r) = UNAUTHORIZED_REQUEST_CODE
                     /\ r.calls = <<>>
               /\ (r.auth /\ r.reply # "ok")
                  => Status(r) = UNAUTHORIZED_REQUEST_CODE
               /\ (r.r.user_id # "" /\ r.user.id = NULL)
                  => Status(r) = UNAUTHORIZED_REQUEST_CODE

C10_Witness ==
    \E c \in Slots :
        /\ req[c].op = "check" /\ req[c].pc = "done"
        /\ Status(req[c]) = OK_REQUEST_CODE
        /\ \E u \in Responses(req[c])[1].body.user : u.token = "tok2"

\* ------------------------------------------------------------------ ga2fa
\* the request was answered with the enrollment payload
Enrolled(r) ==
    /\ r.op = "ga2fa" /\ r.pc = "done" /\ r.qr # ""
    /\ Status(r) = OK_REQUEST_CODE
\* the request found its user and was decided by the handler's branches
Ga2faDecided(r) == r.op = "ga2fa" /\ r.pc = "done" /\ r.user.id # NULL

\* C11: once ga2fa without a code has enrolled a user (200 with the secret and
\* the enrollment payload, the secret persisted), the stored secret of that
\* user stays the one persisted, and a ga2fa call without a code that finds a
\* stored secret is answered 200 with the "code required" advisory and no
\* secret.
C11_EnrollmentSticks ==
    \A c \in Slots :
        LET r == req[c]
        IN  /\ Enrolled(r)
               => /\ {"qr", "secret"} \subseteq Responses(r)[1].body.keys
                  /\ users[r.user.id].secret = r.user.secret
            /\ (Ga2faDecided(r) /\ r.code = NoCode /\ r.qr = "")
               => /\ Status(r) = OK_REQUEST_CODE
                  /\ Responses(r)[1].body = MsgBody(ERROR_GA2FA_NO_CODE)

\* C12: ga2fa with a code for a user that has no stored secret is routed to
\* provisioning: it is answered 200 with the enrollment payload.
C12_CodeIgnoredWhenNotEnrolled ==
    \A c \in Slots :
        LET r == req[c]
        IN  (Ga2faDecided(r) /\ r.code # NoCode /\ r.user.secret = "")
            => /\ Status(r) = OK_REQUEST_CODE
               /\ {"qr", "secret"} \subseteq Responses(r)[1].body.keys

\* C13: ga2fa for a user with a stored secret and a code that is neither the
\* TOTP code of that secret nor the bypass pair is answered 401 with the
\* incorrect-code message, calls no provider, returns no data and changes no
\* user record.
C13_WrongCodeRejected ==
    [][\A c \in Slots :
         LET r    == req[c]
             user == userGetById(r.id)
         IN  ( /\ r.pc = "ga_getById" /\ req'[c] # r
               /\ user.id # NULL /\ user.secret # "" /\ r.code # NoCode
               /\ ~totpVerify(user.secret, r.code)
               /\ ~(user.secret = TEST_SECRET /\ r.code = TestCode) )
             => ( /\ req'[c].pc = "done"
                  /\ Status(req'[c]) = UNAUTHORIZED_REQUEST_CODE
                  /\ Responses(req'[c])[1].body = MsgBody(ERROR_GA2FA_INCORRECT_CODE)
                  /\ req'[c].calls = <<>>
                  /\ users' = users )]_vars

C13_Witness ==
    \E c \in Slots :
        /\ Ga2faDecided(req[c])
        /\ req[c].user.secret = "S1" /\ req[c].code.s = "S1"
        /\ Status(req[c]) = UNAUTHORIZED_REQUEST_CODE
        /\ req[c].calls = <<>>

\* the stored secret and the supplied code are the configured bypass pair
BypassPair(user, code) ==
    user.id # NULL /\ user.secret = TEST_SECRET /\ code = TestCode

C15_BypassOnlyInTest ==
    \A c \in Slots :
        (req[c].op = "ga2fa" /\ nodeEnv # "test" /\ req[c].calls # <<>>)
        => req[c].verified

Hops == <<"credentials", "authorize", "token">>
IsPrefix(s, t) == Len(s) <= Len(t) /\ \A i \in 1 .. Len(s) : s[i] = t[i]
\* the hops of the exchange ran in order, each at most once, and a failed hop
\* ended the request with 401
HopsInOrder(r) ==
    /\ IsPrefix(r.calls, Hops)
    /\ (r.pc = "done" /\ r.calls # <<>> /\ r.reply # "ok")
       => Status(r) = UNAUTHORIZED_REQUEST_CODE
    /\ (r.pc = "done" /\ r.calls # <<>> /\ Status(r) = OK_REQUEST_CODE)
       => r.calls = Hops /\ r.reply = "ok"

\* C16: the hops of ga2fa's exchange run in the order credentials,
\* authorization code, token, each at most once; a failed hop ends the request
\* with 401 and no later hop; token data is returned only when all three hops
\* succeeded after a verified code.
C16_ExchangeInOrder ==
    \A c \in Slots :
        LET r == req[c]
        IN  r.op = "ga2fa"
            => /\ HopsInOrder(r)
               /\ ( /\ nodeEnv # "test" /\ r.pc = "done"
                    /\ Status(r) = OK_REQUEST_CODE
                    /\ "data" \in Responses(r)[1].body.keys )
                  => (r.calls = Hops /\ r.reply = "ok" /\ r.verified)

\* ----------------------------------------------------------------- signup
\* the step is the one that takes a new signup request in
SignupArrives(c) ==
    /\ req[c].pc \in {"idle", "done"} /\ req'[c] # req[c]
    /\ req'[c].op = "signup"
NoPassword(r)    == r.password \in {"", Undefined}
ValidPassword(r) == ~NoPassword(r) /\ r.password = r.confirm
Active(found)    == found.id # NULL /\ found.removed = NULL
StoreUntouched   == users' = users /\ nextUserId' = nextUserId
Message(r)       == Responses(r)[1].body.message

\* C17: signup with an empty or missing password, or with a password that
\* differs from confirm, is answered 401 at once: no store access follows and
\* no user record is created or changed.
C17_RejectedBeforeStore ==
    [][\A c \in Slots :
         ( /\ SignupArrives(c)
           /\ (NoPassword(req'[c]) \/ req'[c].password # req'[c].confirm) )
         => ( /\ req'[c].pc = "done"
              /\ Status(req'[c]) = UNAUTHORIZED_REQUEST_CODE
              /\ StoreUntouched )]_vars

\* C18: signup with the username of a soft-deleted user reactivates that
\* record: the lookup hands that record to save(), and a save that succeeds
\* leaves it enabled with the delete marker cleared, answers 200 with a user of
\* the same id, creates no record and changes no other one.
C18_ReactivatesSameRecord ==
    [][\A c \in Slots :
         LET r     == req[c]
             found == userGetByUsername(r.username)
         IN  /\ ( /\ r.pc = "su_getByUsername" /\ req'[c] # r
                  /\ found.id # NULL /\ found.removed # NULL )
                => /\ StoreUntouched
                   /\ \/ /\ req'[c].pc = "su_save"
                         /\ req'[c].user.id = found.id
                      \/ /\ req'[c].pc = "done"
                         /\ Status(req'[c]) = UNAUTHORIZED_REQUEST_CODE
                         /\ Message(req'[c]) = STORE_ERROR
             /\ (r.pc = "su_save" /\ req'[c] # r)
                => \/ /\ Status(req'[c]) = UNAUTHORIZED_REQUEST_CODE
                      /\ StoreUntouched
                   \/ /\ Status(req'[c]) = OK_REQUEST_CODE
                      /\ DOMAIN users' = DOMAIN users
                      /\ nextUserId' = nextUserId
                      /\ \A i \in DOMAIN users \ {r.user.id} : users'[i] = users[i]
                      /\ users'[r.user.id].enabled
                      /\ users'[r.user.id].removed = NULL
                      /\ Responses(req'[c])[1].body.user # {}
                      /\ \A u \in Responses(req'[c])[1].body.user :
                            u.id = r.user.id /\ u.enabled /\ ~u.removed]_vars

C18_Witness ==
    \E c \in Slots :
        /\ req[c].op = "signup" /\ req[c].pc = "done"
        /\ req[c].username = "bob"
        /\ Status(req[c]) = OK_REQUEST_CODE
        /\ \E u \in Responses(req[c])[1].body.user : u.id = 2
        /\ users[2].enabled /\ users[2].removed = NULL
        /\ DOMAIN users = 1 .. 3

\* C19 as amended: signup with the username of an active user creates and
\* changes no user record and is answered 401: at once when the password is
\* empty or differs from confirm, and otherwise by the username lookup, with
\* the username-taken message or the message of a store failure.
C19_ActiveUsernameConflict ==
    [][\A c \in Slots :
         LET r == req[c]
         IN  /\ ( /\ SignupArrives(c)
                  /\ Active(userGetByUsername(req'[c].username)) )
                => /\ StoreUntouched
                   /\ \/ req'[c].pc = "su_getByUsername"
                      \/ /\ req'[c].pc = "done"
                         /\ Status(req'[c]) = UNAUTHORIZED_REQUEST_CODE
                         /\ ~ValidPassword(req'[c])
             /\ ( /\ r.pc = "su_getByUsername" /\ req'[c] # r
                  /\ Active(userGetByUsername(r.username)) )
                => /\ StoreUntouched
                   /\ req'[c].pc = "done"
                   /\ Status(req'[c]) = UNAUTHORIZED_REQUEST_CODE
                   /\ Message(req'[c]) \in {ERROR_AUTH_USERNAME, STORE_ERROR}]_vars

C19_Witness ==
    \E c \in Slots :
        /\ req[c].op = "signup" /\ req[c].pc = "done"
        /\ req[c].username = "alice" /\ ValidPassword(req[c])
        /\ Status(req[c]) = UNAUTHORIZED_REQUEST_CODE
        /\ Message(req[c]) = ERROR_AUTH_USERNAME

\* C19 as stated: a signup with the username of an active user is answered
\* 401 with the username-taken message whatever its other fields are, and
\* changes no user record.
C19_AlwaysUsernameTaken ==
    [][\A c \in Slots :
         ( /\ req[c].pc \in {"idle", "done", "su_getByUsername"}
           /\ req'[c] # req[c]
           /\ req'[c].op = "signup" /\ req'[c].pc = "done"
           /\ Active(userGetByUsername(req'[c].username)) )
         => ( /\ Status(req'[c]) = UNAUTHORIZED_REQUEST_CODE
              /\ Message(req'[c]) = ERROR_AUTH_USERNAME
              /\ StoreUntouched )]_vars

\* C20: signup with a non-empty password equal to confirm goes on to the
\* lookups; a lookup that finds nobody goes on towards create without touching
\* the store; and a create that succeeds adds exactly one record, enabled and
\* not removed, with the username and e-mail supplied, changes no other
\* record and answers 200 with the public view of the new record.
C20_CreatesOneEnabledUser ==
    [][\A c \in Slots :
         LET r     == req[c]
             found == IF r.pc = "su_getByUsername"
                      THEN userGetByUsername(r.username)
                      ELSE userGetByName(r.email)
         IN  /\ (SignupArrives(c) /\ ValidPassword(req'[c]))
                => /\ StoreUntouched
                   /\ req'[c].pc \in {"su_getByUsername", "su_getByName", "su_create"}
             /\ ( /\ r.pc \in {"su_getByUsername", "su_getByName"}
                  /\ req'[c] # r /\ found.id = NULL )
                => /\ StoreUntouched
                   /\ \/ req'[c].pc \in {"su_getByName", "su_create"}
                      \/ /\ req'[c].pc = "done"
                         /\ Message(req'[c]) = STORE_ERROR
             /\ (r.pc = "su_create" /\ req'[c] # r)
                => \/ /\ Status(req'[c]) = UNAUTHORIZED_REQUEST_CODE
                      /\ Message(req'[c]) = STORE_ERROR
                      /\ StoreUntouched
                   \/ /\ Status(req'[c]) = OK_REQUEST_CODE
                      /\ nextUserId \notin DOMAIN users
                      /\ DOMAIN users' = DOMAIN users \cup {nextUserId}
                      /\ \A i \in DOMAIN users : users'[i] = users[i]
                      /\ users'[nextUserId].enabled
                      /\ users'[nextUserId].removed = NULL
                      /\ users'[nextUserId].username = r.username
                      /\ users'[nextUserId].email = r.email
                      /\ "password" \notin Responses(req'[c])[1].body.keys
                      /\ Responses(req'[c])[1].body.user # {}
                      /\ \A u \in Responses(req'[c])[1].body.user :
                            /\ DOMAIN u = PublicUserFields
                            /\ u.id = nextUserId /\ u.enabled /\ ~u.removed
                            /\ u.username = r.username /\ u.email = r.email]_vars

C20_Witness ==
    \E c \in Slots :
        /\ req[c].op = "signup" /\ req[c].pc = "done"
        /\ req[c].username = "carol" /\ req[c].email = "c@x"
        /\ req[c].password = "p2"
        /\ Status(req[c]) = OK_REQUEST_CODE
        /\ \E u \in Responses(req[c])[1].body.user : u.id = 4 /\ u.enabled
        /\ 4 \in DOMAIN users /\ users[4].username = "carol"

\* C21: a signup call takes one path and answers once. Validation ends the
\* call at once; the username is looked up before the e-mail; a lookup that
\* finds a record ends in its reactivation or in a conflict and is never
\* followed by the e-mail lookup or by a creation; the e-mail is looked up only
\* when the username was empty or matched nobody; a user is created only when
\* every lookup made matched nobody; nothing is sent before the path has ended
\* and what is sent then is one event and one response.
C21_OnePathOneResponse ==
    [][\A c \in Slots :
         LET r     == req[c]
             q     == req'[c]
             found == IF r.pc = "su_getByUsername"
                      THEN userGetByUsername(r.username)
                      ELSE userGetByName(r.email)
         IN  /\ SignupArrives(c)
                => /\ q.pc \in {"done", "su_getByUsername", "su_getByName", "su_create"}
                   /\ (q.pc = "done") <=> (~ValidPassword(q) /\ q.password # Undefined)
                   /\ (q.pc = "su_getByName") => q.username = ""
                   /\ (q.pc = "su_create") => (q.username = "" /\ q.email = "")
                   /\ StoreUntouched
             /\ (r.pc \in {"su_getByUsername", "su_getByName"} /\ q # r)
                => /\ StoreUntouched
                   /\ IF found.id # NULL
                      THEN q.pc \in {"su_save", "done"}
                      ELSE \/ q.pc = "done" /\ Message(q) = STORE_ERROR
                           \/ q.pc = "su_create"
                           \/ /\ q.pc = "su_getByName"
                              /\ r.pc = "su_getByUsername" /\ r.email # ""
             /\ (r.pc = "su_save" /\ q # r)
                => (q.pc = "done" /\ nextUserId' = nextUserId)
             /\ (r.pc = "su_create" /\ q # r) => q.pc = "done"
             /\ (q.op = "signup" /\ q.pc # "done") => q.log = <<>>
             /\ (q.op = "signup" /\ q.pc = "done")
                => /\ Len(q.log) = 2
                   /\ Len(Events(q)) = 1 /\ Len(Responses(q)) = 1
                   /\ q.log[2].kind = "response"]_vars

\* a signup whose username names the soft-deleted record and whose e-mail is
\* the one of an active user: it ends in the reactivation, not in the conflict
C21_Witness ==
    \E c \in Slots :
        /\ req[c].op = "signup" /\ req[c].pc = "done"
        /\ req[c].username = "bob" /\ req[c].email = "a@x"
        /\ Status(req[c]) = OK_REQUEST_CODE
        /\ \E u \in Responses(req[c])[1].body.user : u.id = 2 /\ u.enabled
        /\ DOMAIN users = 1..3

\* ----------------------------------------------------------------- forgot
ForgotArrives(c) ==
    /\ req[c].pc \in {"idle", "done"} /\ req'[c] # req[c]
    /\ req'[c].op = "forgot"
StoredTokens == {users[i].passwordResetToken : i \in DOMAIN users}

\* C22: forgot with an empty e-mail is answered 401 with no store access;
\* with an e-mail that matches no user it is answered 401 with the
\* invalid-email message and changes nothing; with a known e-mail it mints a
\* token that is not stored yet, stores it on that user with the expiry of
\* the time of issuance plus 3600000 and answers with that same token, and no
\* other user record changes.
C22_ForgotIssuesToken ==
    [][\A c \in Slots :
         LET r     == req[c]
             q     == req'[c]
             found == userGetByName(r.email)
         IN  /\ ForgotArrives(c)
                => /\ StoreUntouched
                   /\ IF q.email = ""
                      THEN /\ q.pc = "done"
                           /\ Status(q) = UNAUTHORIZED_REQUEST_CODE
                           /\ Message(q) = ERROR_AUTH_EMPTY_EMAIL
                      ELSE q.pc = "fo_getByName"
             /\ (r.pc = "fo_getByName" /\ q # r)
                => /\ StoreUntouched
                   /\ IF found.id = NULL
                      THEN /\ q.pc = "done"
                           /\ Status(q) = UNAUTHORIZED_REQUEST_CODE
                           /\ Message(q) \in {ERROR_AUTH_INVALID_EMAIL, STORE_ERROR}
                      ELSE \/ /\ q.pc = "done"
                              /\ Status(q) = UNAUTHORIZED_REQUEST_CODE
                              /\ Message(q) = STORE_ERROR
                           \/ /\ q.pc = "fo_save"
                              /\ q.token # "" /\ q.token \notin StoredTokens
                              /\ q.user = [found EXCEPT
                                    !.passwordResetToken = q.token,
                                    !.passwordResetExpires = now + 3600000]
             /\ (r.pc = "fo_save" /\ q # r)
                => /\ q.pc = "done"
                   /\ \/ /\ Status(q) = UNAUTHORIZED_REQUEST_CODE
                         /\ Message(q) = STORE_ERROR
                         /\ StoreUntouched
                      \/ /\ Status(q) = OK_REQUEST_CODE
                         /\ Responses(q)[1].body.token = r.token
                         /\ \E u \in Responses(q)[1].body.user : u.id = r.user.id
                         /\ users'[r.user.id].passwordResetToken = r.token
                         /\ users'[r.user.id].passwordResetExpires
                               = r.user.passwordResetExpires
                         /\ DOMAIN users' = DOMAIN users
                         /\ nextUserId' = nextUserId
                         /\ \A i \in DOMAIN users \ {r.user.id} :
                               users'[i] = users[i]]_vars

\* forgot for bob has stored the token it answers with; alice keeps hers
C22_Witness ==
    \E c \in Slots :
        /\ req[c].op = "forgot" /\ req[c].pc = "done" /\ req[c].email = "b@x"
        /\ Status(req[c]) = OK_REQUEST_CODE
        /\ Responses(req[c])[1].body.token = users[2].passwordResetToken
        /\ users[2].passwordResetToken \in {"T2", "T3"}
        /\ users[2].passwordResetExpires = now + 3600000
        /\ users[1].passwordResetToken = "T1"

\* ------------------------------------------------------------------ reset
\* C23: a reset token is used once and a new issuance supersedes it. Once a
\* reset with token T has succeeded no user is stored under T, so every later
\* reset with T fails; once a forgot for alice has issued another token, the
\* token she held before is not stored on her any more.
C23_TokenSingleUse ==
    \A c \in Slots :
        LET r == req[c]
        IN  /\ ( /\ r.op = "reset" /\ r.pc = "done"
                 /\ Status(r) = OK_REQUEST_CODE )
               => userGetByPasswordResetToken(r.token).id = NULL
            /\ ( /\ r.op = "forgot" /\ r.pc = "done"
                 /\ Status(r) = OK_REQUEST_CODE
                 /\ r.user.id = 1 /\ r.token # PendingToken )
               => users[1].passwordResetToken # PendingToken

\* the stored expiry of the record has passed
Expired(u) == u.passwordResetExpires # NULL /\ u.passwordResetExpires < now

\* C24: a reset whose token is stored on no user, or is stored with an expiry
\* that has passed, is answered 401 with the invalid-reset-token message once
\* the lookup has answered, and no user record changes.
C24_BadTokenRejected ==
    [][\A c \in Slots :
         LET r     == req[c]
             q     == req'[c]
             found == userGetByPasswordResetToken(r.token)
         IN  ( /\ r.pc = "rs_getByToken" /\ q # r
               /\ ~(q.pc = "done" /\ q.log = <<>>)      \* the lookup answered
               /\ (found.id = NULL \/ Expired(found)) )
             => /\ q.pc = "done"
                /\ Status(q) = UNAUTHORIZED_REQUEST_CODE
                /\ Message(q) = ERROR_AUTH_INVALID_RESET_TOKEN
                /\ StoreUntouched]_vars

\* request q is a reset that has stored a new password for user u
ResetStored(us, q, u) ==
    /\ q.op = "reset" /\ q.email # ""
    /\ q.email \in {us[u].email, us[u].username}

\* C25: a reset with a stored token hashes the new password, clears token and
\* expiry on the record, stores the record and only then starts the login of
\* that user with the new password, whose outcome is the answer. Once the
\* reset was answered with the login, and no other reset has stored a password
\* for that user, the new password matches the stored hash and no other
\* password does.
C25_ResetTakesEffect ==
    [][\A c \in Slots :
         LET r == req[c]
             q == req'[c]
         IN  /\ (r.pc = "rs_hash" /\ q # r)
                => /\ StoreUntouched
                   /\ \/ q.pc = "done" /\ Status(q) = UNAUTHORIZED_REQUEST_CODE
                      \/ /\ q.pc = "rs_save"
                         /\ comparePassword(r.password, q.user.password)
                         /\ q.user.passwordResetToken = ""
                         /\ q.user.passwordResetExpires = NULL
             /\ (r.pc = "rs_save" /\ q # r)
                => \/ /\ q.pc = "done" /\ Message(q) = STORE_ERROR
                      /\ StoreUntouched
                   \/ /\ users'[r.user.id].password = r.user.password
                      /\ users'[r.user.id].passwordResetToken = ""
                      /\ users'[r.user.id].passwordResetExpires = NULL
                      /\ q.email \in {r.user.email, r.user.username}
                      /\ q.password = r.password
                      /\ IF MissingCredentials(q.email, q.password)
                         THEN q.pc = "done" /\ q.log = LoginNoUser
                         ELSE q.pc = "login_getByName" /\ q.log = <<>>
             /\ ( /\ q.op = "reset" /\ q.pc = "done"
                  /\ Status(q) = OK_REQUEST_CODE
                  /\ \A d \in Slots \ {c} : ~ResetStored(users', req'[d], q.user.id) )
                => /\ comparePassword(q.password, users'[q.user.id].password)
                   /\ \A p \in Passwords \ {q.password} :
                         ~comparePassword(p, users'[q.user.id].password)]_vars

\* ----------------------------------------------------------------- logout
LogoutArrives(c) ==
    /\ req[c].pc \in {"idle", "done"} /\ req'[c] # req[c]
    /\ req'[c].op = "logout"

\* C26: logout without an id is answered 401 with no store access; with an id
\* that matches no user it is answered 401; otherwise it is answered 200 with
\* the public view of that user. No step of a logout changes a user record or
\* a session.
C26_LogoutReadsOnly ==
    [][\A c \in Slots :
         LET r     == req[c]
             q     == req'[c]
             found == userGetById(r.id)
         IN  /\ LogoutArrives(c)
                => /\ StoreUntouched /\ session' = session
                   /\ IF q.id = NULL
                      THEN /\ q.pc = "done"
                           /\ Status(q) = UNAUTHORIZED_REQUEST_CODE
                           /\ Message(q) = ERROR_VALIDATION
                      ELSE q.pc = "lo_getById" /\ q.log = <<>>
             /\ (r.pc = "lo_getById" /\ q # r)
                => /\ StoreUntouched /\ session' = session
                   /\ q.pc = "done"
                   /\ IF found.id = NULL
                      THEN /\ Status(q) = UNAUTHORIZED_REQUEST_CODE
                           /\ Message(q) \in {ERROR_AUTH_USERNAME, STORE_ERROR}
                      ELSE \/ /\ Status(q) = UNAUTHORIZED_REQUEST_CODE
                              /\ Message(q) = STORE_ERROR
                           \/ /\ Status(q) = OK_REQUEST_CODE
                              /\ Responses(q)[1].body.user
                                    = {PublicUser(found, NULL, "")}]_vars

\* alice has logged in and then logged out from the same client: the answer is
\* 200 and the session is still bound to her
C26_Witness ==
    \E c \in Slots :
        /\ req[c].op = "logout" /\ req[c].pc = "done" /\ req[c].id = 1
        /\ Status(req[c]) = OK_REQUEST_CODE
        /\ \E u \in Responses(req[c])[1].body.user : u.id = 1
        /\ session[c] = 1

\* ================================================================== roles
\* the step is the one that takes a new call of `op` in
RoleCallArrives(c, op) ==
    /\ roleCall[c].pc \in {"idle", "resolved", "rejected"}
    /\ roleCall'[c] # roleCall[c]
    /\ roleCall'[c].op = op
Stepped(c, op, pc) ==
    /\ roleCall[c].op = op /\ roleCall[c].pc = pc
    /\ roleCall'[c] # roleCall[c]

\* C27: remove of a role that is not protected first deletes every membership
\* link of the role, and the role row is as it was until that statement has
\* succeeded; if it fails the call rejects and the row is never touched. The
\* statement on the row follows: in the test environment the row is deleted,
\* in every other one it is kept with removed set to the time of the store and
\* enabled false. The statement on the row changes no link.
C27_RemoveLinksThenRow ==
    [][\A c \in Slots :
         LET r  == roleCall[c]
             q  == roleCall'[c]
             id == r.role.id
         IN  /\ RoleCallArrives(c, "remove")
                => /\ roles' = roles /\ userRole' = userRole
                   /\ q.pc = IF IsProtected(q.role.id) THEN "rejected"
                             ELSE "deleteLinks"
             /\ Stepped(c, "remove", "deleteLinks")
                => /\ ~IsProtected(id)
                   /\ roles' = roles
                   /\ \/ q.pc = "rejected" /\ userRole' = userRole
                      \/ /\ q.pc = "removeRow"
                         /\ userRole' = {l \in userRole : l[2] # id}
             /\ Stepped(c, "remove", "removeRow")
                => /\ userRole' = userRole
                   /\ \/ q.pc = "rejected" /\ roles' = roles
                      \/ /\ q.pc = "resolved"
                         /\ \A i \in DOMAIN roles \ {id} :
                               i \in DOMAIN roles' /\ roles'[i] = roles[i]
                         /\ IF nodeEnv = "test"
                            THEN DOMAIN roles' = DOMAIN roles \ {id}
                            ELSE /\ DOMAIN roles' = DOMAIN roles
                                 /\ id \in DOMAIN roles
                                    => roles'[id] =
                                          [roles[id] EXCEPT !.removed = now,
                                                            !.enabled = FALSE]]_vars

\* outside the test environment role 4 was removed: its row is kept, marked
\* removed and disabled, and it has no member left
C27_Witness ==
    \E c \in Slots :
        /\ roleCall[c].op = "remove" /\ roleCall[c].pc = "resolved"
        /\ roleCall[c].role.id = 4
        /\ nodeEnv # "test"
        /\ 4 \in DOMAIN roles
        /\ roles[4].removed # NULL /\ ~roles[4].enabled
        /\ RoleUsers(4) = {}

\* C28: when update(role) of a stored role that is not protected resolves, the
\* members of the role are exactly the users supplied, whoever the members
\* were before; no statement of the update changes the members of another role.
C28_MembershipReplaced ==
    [][\A c \in Slots :
         LET r  == roleCall[c]
             q  == roleCall'[c]
             id == r.role.id
         IN  /\ ( /\ Stepped(c, "update", "insertLinks") /\ q.pc = "resolved"
                  /\ id \in DOMAIN roles /\ ~IsProtected(id) )
                => RoleUsers(id) = r.role.users
             /\ (r.op = "update" /\ q # r)
                => {l \in userRole' : l[2] # id} = {l \in userRole : l[2] # id}]_vars

\* the INSERT of create and what it leaves alone
CreateInserted(c) ==
    LET r == roleCall[c]
        q == roleCall'[c]
    IN  /\ RoleCallArrives(c, "create")
           => /\ roles' = roles /\ userRole' = userRole
              /\ nextRoleId' = nextRoleId
              /\ q.pc = "insert"
        /\ Stepped(c, "create", "insert")
           => /\ userRole' = userRole
              /\ \/ /\ q.pc = "rejected"
                    /\ roles' = roles /\ nextRoleId' = nextRoleId
                 \/ /\ q.pc = "getByName"
                    /\ \E new \in DOMAIN roles' \ DOMAIN roles :
                         /\ DOMAIN roles' = DOMAIN roles \cup {new}
                         /\ roles'[new].enabled
                         /\ roles'[new].removed = NULL
                         /\ roles'[new].title = r.role.title
                         /\ roles'[new].description = r.role.description
                    /\ \A i \in DOMAIN roles : roles'[i] = roles[i]
        /\ Stepped(c, "create", "getByName")
           => /\ roles' = roles /\ userRole' = userRole
              /\ nextRoleId' = nextRoleId

\* C29: create(role) inserts one row: it is enabled whatever the argument
\* says, carries the title given and an id the store assigns, which no stored
\* role has; no stored role and no link changes. The call then resolves with
\* the row it inserted.
C29_CreateInsertsOne ==
    [][\A c \in Slots :
         /\ CreateInserted(c)
         /\ ( /\ Stepped(c, "create", "getByName")
              /\ roleCall'[c].pc = "resolved" )
            => /\ roleCall'[c].result \in DOMAIN roles \ (ProtectedRoleIds \cup {4})
               /\ roles[roleCall'[c].result].title = roleCall[c].role.title]_vars

\* C29 as the repository has it: the insert is as stated, and the call
\* resolves with what the lookup by title finds when it runs: the row
\* inserted, or null when that row is not stored under the title any more.
C29_CreateRefetchesByTitle ==
    [][\A c \in Slots :
         /\ CreateInserted(c)
         /\ ( /\ Stepped(c, "create", "getByName")
              /\ roleCall'[c].pc = "resolved" )
            => LET result == roleCall'[c].result
               IN  /\ result = getByName(roles, roleCall[c].role.title)
                   /\ result # NULL
                      => /\ result \in DOMAIN roles \ (ProtectedRoleIds \cup {4})
                         /\ roles[result].title = roleCall[c].role.title]_vars

\* a create has resolved with role 5, stored enabled under the title given,
\* and the roles and links of the start are as they were
C29_Witness ==
    \E c \in Slots :
        /\ roleCall[c].op = "create" /\ roleCall[c].pc = "resolved"
        /\ roleCall[c].result = 5
        /\ DOMAIN roles = 1 .. 5
        /\ roles[5].title = "author" /\ roles[5].enabled
        /\ roles[4].title = "editor"
        /\ userRole = {<<1, SUPERADMIN_ROLE_ID>>, <<2, USER_ROLE_ID>>, <<1, 4>>}

\* C30: update is not atomic. The row is written first and the links of the
\* role are deleted next, each statement taking effect as it runs; from then
\* on the links supplied are inserted one statement at a time. When a
\* statement fails after the delete, update rejects with the error of the
\* store and undoes nothing: the row keeps the values written and the role
\* keeps the links it has at that moment, none or a part of those supplied.
C30_UpdateNotAtomic ==
    [][\A c \in Slots :
         LET r  == roleCall[c]
             q  == roleCall'[c]
             id == r.role.id
         IN  /\ (Stepped(c, "update", "updateRow") /\ q.pc = "deleteLinks")
                => /\ userRole' = userRole
                   /\ id \in DOMAIN roles
                      => /\ roles'[id].title = r.role.title
                         /\ roles'[id].description = r.role.description
                         /\ roles'[id].enabled = r.role.enabled
                         /\ roles'[id].removed = r.role.removed
             /\ (Stepped(c, "update", "deleteLinks") /\ q.pc = "insertLinks")
                => /\ roles' = roles
                   /\ {l[1] : l \in {m \in userRole' : m[2] = id}} = {}
                   /\ q.pending = r.role.users
             /\ (Stepped(c, "update", "insertLinks") /\ q.pc = "insertLinks")
                => /\ roles' = roles
                   /\ \E userId \in r.pending :
                        /\ q.pending = r.pending \ {userId}
                        /\ userRole' \in {userRole, userRole \cup {<<userId, id>>}}
             /\ (Stepped(c, "update", "insertLinks") /\ q.pc = "rejected")
                => /\ q.error = STORE_ERROR
                   /\ roles' = roles
                   /\ userRole' = userRole]_vars

\* the only call made is an update of role 4, which started as "editor" with
\* member 1: it was rejected by the store, the row carries the new title and
\* the role has lost member 1 and has member 2 of those supplied
C30_Witness ==
    \E c \in Slots :
        /\ roleCallsStarted = 1
        /\ roleCall[c].op = "update" /\ roleCall[c].pc = "rejected"
        /\ roleCall[c].error = STORE_ERROR
        /\ roleCall[c].role.id = 4
        /\ roles[4].title = "author"
        /\ RoleUsers(4) = {2}

\* ------------------------------------------------------- concurrent calls
\* update call r has run every statement that writes; only the re-read is left
UpdateWritten(r) == r.op = "update" /\ r.pc = "insertLinks" /\ r.pending = {}
RowOf(role) ==
    [title |-> role.title, description |-> role.description,
     enabled |-> role.enabled, removed |-> role.removed]

\* C31: when two update calls on the same stored role that is not protected
\* have both run all their statements, the members of the role are the set
\* one of the two supplied, and that call is the one whose fields the row
\* carries.
C31_LastWriteWins ==
    \A c, d \in Slots :
        LET r  == roleCall[c]
            s  == roleCall[d]
            id == r.role.id
        IN  ( /\ c # d /\ UpdateWritten(r) /\ UpdateWritten(s)
              /\ s.role.id = id
              /\ id \in DOMAIN roles /\ ~IsProtected(id) )
            => \/ RoleUsers(id) = r.role.users /\ roles[id] = RowOf(r.role)
               \/ RoleUsers(id) = s.role.users /\ roles[id] = RowOf(s.role)

\* C32: a secret is provisioned at most once per user. From the moment a
\* ga2fa call has been answered with the enrollment payload, no step of any
\* request changes the secret stored for that user, in any interleaving.
C32_SecretProvisionedOnce ==
    [][\A c \in Slots :
         (Enrolled(req[c]) /\ req[c].user.id \in DOMAIN users)
         => users'[req[c].user.id].secret = users[req[c].user.id].secret]_vars

\* reset request r has stored a new password: only the save sets the e-mail
\* the implicit login uses
ResetSaved(r) == r.op = "reset" /\ r.email # ""

\* C33: of two reset requests that carry the same token at most one stores a
\* new password, in every interleaving of their lookup, hash and save steps.
C33_OneResetPerToken ==
    \A c, d \in Slots :
        (c # d /\ req[c].token = req[d].token)
        => ~(ResetSaved(req[c]) /\ ResetSaved(req[d]))

\* ------------------------------------------------------------ audit events
\* the method tag names the operation; the events of a login carry the name
\* of the function that handles it, loginUser, or of its validation
MethodNames(method, op) ==
    \/ method = op
    \/ op = "login" /\ method \in {"loginUser", "validate"}

\* C34: every audit event emitted while a request is handled carries the
\* name of the operation requested as its method, in the branches that
\* succeed and in those that fail.
C34_EventNamesOperation ==
    \A c \in Slots :
        \A i \in 1 .. Len(Events(req[c])) :
            MethodNames(Events(req[c])[i].method, req[c].op)

\* C35: no audit event carries a password hash or a TOTP secret inside a
\* user object: a user placed in an event is the redacted projection that
\* responses carry, in every branch of every operation.
C35_EventsRedacted ==
    \A c \in Slots :
        \A i \in 1 .. Len(Events(req[c])) :
            \A u \in Events(req[c])[i].body.user :
                /\ DOMAIN u = PublicUserFields
                /\ {"password", "secret"} \cap DOMAIN u = {}

\* ------------------------------------------------------------- enrollment
\* the save of an enrollment by request c has been answered 200
EnrollmentSaved(c) ==
    /\ req[c].pc = "ga_save" /\ req'[c] # req[c]
    /\ Status(req'[c]) = OK_REQUEST_CODE

\* C36: in the enrollment of any user, the test account included, the secret
\* sent to the client is the secret stored for that user, so that the code an
\* authenticator derives from it verifies against the stored secret.
C36_ReturnedSecretStored ==
    [][\A c \in Slots :
         EnrollmentSaved(c)
         => LET sent   == Responses(req'[c])[1].body.secret
                stored == users'[req[c].user.id].secret
            IN  sent = stored /\ totpVerify(stored, Totp(sent, now))]_vars

\* C36 as the entity has it: for every user but the test account the secret
\* sent is the one stored and its codes verify; for the test account the
\* secret stored is the configured one, whatever secret was generated and sent.
C36_ReturnedSecretStoredUnlessTest ==
    [][\A c \in Slots :
         EnrollmentSaved(c)
         => LET sent   == Responses(req'[c])[1].body.secret
                stored == users'[req[c].user.id].secret
            IN  /\ sent = req[c].qr /\ sent \in Secrets
                /\ IF req[c].user.username = TEST_USERNAME
                   THEN stored = TEST_SECRET
                   ELSE sent = stored /\ totpVerify(stored, Totp(sent, now))]_vars

\* the test account has enrolled: the answer carries the generated secret,
\* the configured one is stored
C36_Witness ==
    \E c \in Slots :
        /\ Enrolled(req[c]) /\ req[c].id = 3
        /\ users[3].username = TEST_USERNAME
        /\ Responses(req[c])[1].body.secret \in Secrets
        /\ users[3].secret = TEST_SECRET

\* ----------------------------------------------------------- reactivation
\* C37: a reactivation by signup, by username or by e-mail, changes the
\* delete marker and the enabled flag of the record matched and nothing else.
\* The entity handed to save() is the record found with those two fields set;
\* the save that succeeds leaves username, e-mail, password hash, secret,
\* reset token and expiry of the stored record as they were, with no link to
\* a role changed, and the password and e-mail of the request are not applied.
C37_ReactivationFrame ==
    [][\A c \in Slots :
         LET r     == req[c]
             q     == req'[c]
             found == IF r.pc = "su_getByUsername"
                      THEN userGetByUsername(r.username)
                      ELSE userGetByName(r.email)
         IN  /\ ( /\ r.pc \in {"su_getByUsername", "su_getByName"}
                  /\ q.pc = "su_save" )
                => q.user = [found EXCEPT !.removed = NULL, !.enabled = TRUE]
             /\ ( /\ r.pc = "su_save" /\ q # r
                  /\ Status(q) = OK_REQUEST_CODE )
                => /\ users'[r.user.id] =
                         [users[r.user.id] EXCEPT !.removed = NULL,
                                                  !.enabled = TRUE]
                   /\ userRole' = userRole]_vars

\* ------------------------------------------------------------------- C38
\* C38: after any sequence and any interleaving of signup calls no two active
\* users share a non-empty username, and no two share a non-empty e-mail
\* address
C38_ActiveUsersDistinct ==
    \A i, j \in DOMAIN users :
        (i # j /\ users[i].removed = NULL /\ users[j].removed = NULL)
        => /\ users[i].username = "" \/ users[i].username # users[j].username
           /\ users[i].email = "" \/ users[i].email # users[j].email

\* ------------------------------------------------------------------- C39
\* C39: at the step that completes remove(role) of a role that is not
\* protected, also with an update of the same role in flight, the role has no
\* membership link and every stored link names a role whose row exists.
C39_RemoveLeavesNoLinks ==
    [][\A c \in Slots :
         LET id == roleCall[c].role.id
         IN  ( /\ Stepped(c, "remove", "removeRow")
               /\ roleCall'[c].pc = "resolved"
               /\ ~IsProtected(id) )
             => /\ {l \in userRole' : l[2] = id} = {}
                /\ \A l \in userRole' : l[2] \in DOMAIN roles']_vars

\* ------------------------------------------------------------------- C40
\* what a step of ga2fa can leave: the position of the handler and the answer
GaPcs == {"ga_getById", "ga_save", "ga_credentials", "ga_authorize", "ga_token",
          "done"}
GaMessages == {ERROR_GA2FA_NO_CODE, ERROR_GA2FA_INCORRECT_CODE, STORE_ERROR,
               FETCH_ERROR, "provider error", "token error"}
GaBodies == {DataBody, EmptyBody} \cup {MsgBody(m) : m \in GaMessages}
               \cup {EnrollBody(s) : s \in Secrets}
GaAnswers == {<<>>} \cup {<<Res(st, b)>> : st \in {OK_REQUEST_CODE,
                                  UNAUTHORIZED_REQUEST_CODE}, b \in GaBodies}
GaStep(c) ==
    Ga2faGetById(c) \/ Ga2faSave(c) \/ Ga2faHop(c) \/ Ga2faToken(c)
CanLeave(c, p, a) ==
    ENABLED (GaStep(c) /\ req'[c].pc = p /\ Responses(req'[c]) = a)

\* C40: the outcome of ga2fa does not depend on the session. Of two requests
\* with the same id and code at the same point of the handler, against the
\* same store, environment and clock, one from a client whose session a
\* password login has bound to a user and one from a client with another or no
\* session, each can take exactly the steps and be given exactly the answers
\* the other can.
C40_SessionBlind ==
    \A c, d \in Slots :
        ( /\ c # d /\ session[c] # session[d]
          /\ req[c].op = "ga2fa" /\ req[c].pc # "done" /\ req[d] = req[c] )
        => \A p \in GaPcs, a \in GaAnswers : CanLeave(c, p, a) <=> CanLeave(d, p, a)

\* alice's code is accepted and the token data is sent both to a client that
\* has logged in as alice and to one that never logged in
C40_Witness ==
    \E c, d \in Slots :
        /\ session[c] = NULL /\ session[d] = 1
        /\ \A e \in {c, d} :
             /\ req[e].op = "ga2fa" /\ req[e].id = 1 /\ req[e].pc = "done"
             /\ Responses(req[e]) = <<Res(OK_REQUEST_CODE, DataBody)>>

====
